---- MODULE Spec2Model ----
(***************************************************************************)
(* The content pipeline of EngThi/novo: the two orchestrators              *)
(* (PipelineIntegrado, PipelineAutomatizado), the tracking sheet written   *)
(* by SheetsTracker.update_status, DriveUploader.upload_directory and its   *)
(* helpers, the script-to-segments parser parse_script, the section and    *)
(* timestamp functions of ScriptGenerator, and the files the stage         *)
(* programs of both orchestrators read and write.                          *)
(***************************************************************************)
EXTENDS Integers, Sequences, FiniteSets, TLC

VARIABLES
    \* ---- pipeline runs (one orchestrator process each) ----
    kind,       \* run -> "none" | "integrado" | "automatizado"
    pc,         \* run -> [stage, phase]: position of the orchestrator
    proc,       \* run -> stages whose call / subprocess is executing
    exitv,      \* run -> what the stage that just ended gave back
    started,    \* run -> stages invoked so far ("Gerando ..." log lines)
    result,     \* run -> "none" | "True" | "False" | "raised"
    project,    \* run -> directory name of the run's project, or "none"
    topic,      \* run -> project_name / selected topic title, or "none"
    rowIndex,   \* run -> PipelineIntegrado.row_index (0: attribute not set)
    sheetOn,    \* PipelineIntegrado.status_sheet is initialised
    producao,   \* rows 2.. of the sheet 'Producao' (each a sequence of cells)
    driveUrl,   \* directory -> content of drive_url.txt, or "none"
    statusWritten \* run -> stage of the last status it wrote to the sheet, or 0

pipeVars == <<kind, pc, proc, exitv, started, result, project, topic, rowIndex,
              sheetOn, producao, driveUrl, statusWritten>>

VARIABLES
    \* ---- SheetsTracker (sheet 'Pipeline') ----
    trackerOn,  \* SheetsTracker.service and tracking_sheet_id are set
    today,      \* the date datetime.now() gives
    sheet,      \* rows of the sheet 'Pipeline' (each a sequence of cells)
    call        \* tracker process -> its update_status call in progress

sheetVars == <<trackerOn, today, sheet, call>>

VARIABLES
    \* ---- DriveUploader.upload_directory (one call) ----
    upDir,      \* the directory: [valid, files], files as found by rglob
    upPc,       \* position of the call
    upFolders,  \* Drive folders created so far, in order
    upDone,     \* uploaded_files['files']: file infos appended so far
    upUrlWrites,   \* times drive_url.txt was written by the call
    upInfoWrites,  \* times upload_info.json was written by the call
    upSaveFailed   \* _save_upload_info logged that it could not save

upVars == <<upDir, upPc, upFolders, upDone, upUrlWrites, upInfoWrites, upSaveFailed>>

VARIABLES
    \* ---- PipelineAutomatizado.parse_script ----
    script,     \* the text of the script, a sequence of phrases
    parsed,     \* parse_script has been called on the script
    segments    \* the list parse_script returned

parseVars == <<script, parsed, segments>>

VARIABLES
    \* ---- ScriptGenerator ----
    raw_script,  \* the text given to _extract_sections, a sequence of phrases
    extracted,   \* _extract_sections has been called on the text
    sections,    \* the list _extract_sections returned
    ts_input,    \* the string given to _timestamp_to_seconds, a sequence of characters
    ts_converted, \* _timestamp_to_seconds has been called on the string
    ts_result    \* the value _timestamp_to_seconds returned

genVars == <<raw_script, extracted, sections, ts_input, ts_converted, ts_result>>


VARIABLES
    \* ---- DriveUploader._determine_target_folder and _get_mime_type ----
    file_path,      \* the name of the file, stem and dotted parts
    given_mapping,  \* the folder mapping given to _determine_target_folder
    target_folder,  \* what _determine_target_folder returned, "" before the call
    mime_type       \* what _get_mime_type returned, "" before the call

helperVars == <<file_path, given_mapping, target_folder, mime_type>>


VARIABLES
    \* ---- the stages and the files of one project directory ----
    proj_files,       \* the paths of the files in the project directory
    script_json,      \* the sections in script.json
    segments_json,    \* the list in segments.json
    script_segments,  \* the list generate_script returned
    run_segments,     \* the list run_pipeline hands from stage to stage
    stage_log         \* the stages executed so far, with what they found

stageVars == <<proj_files, script_json, segments_json, script_segments, run_segments, stage_log>>


VARIABLES
    \* ---- DependencyRiskMonitor and its monitoring threads ----
    is_monitoring,      \* DependencyRiskMonitor.is_monitoring
    monitor_thread,     \* the thread in monitor_thread, 0 for None
    thread,             \* thread -> [pc, hash]: where it is in _monitoring_loop
    caller,             \* where the caller is in start_monitoring / stop_monitoring
    last_audit,         \* last_audit has been set
    dependency_hashes,  \* the dict dependency_hashes, as a function on its keys
    detect_log          \* the calls of detect_dependency_changes: [hash, ret]

monVars == <<is_monitoring, monitor_thread, thread, caller, last_audit, dependency_hashes,
             detect_log>>


VARIABLES
    \* ---- DependencyRiskMonitor.calculate_risk_score ----
    assessment,         \* the assessment handed to calculate_risk_score
    risk_score          \* what it returned, -1 before the call

scoreVars == <<assessment, risk_score>>


VARIABLES
    \* ---- the subprocess wrappers and SecurityConfig.validate_path ----
    command,            \* the command list given to a wrapper
    given_kwargs,       \* the keyword arguments given to it
    handed,             \* what the wrapper handed to subprocess.run / anyio.run_process
    wrap_result,        \* "none" | "returned" | "raised"
    platform,           \* "posix" | "nt"
    given_path,         \* the path given to validate_path or to an example
    path_result         \* who was called and what came back

secVars == <<command, given_kwargs, handed, wrap_result, platform, given_path, path_result>>


VARIABLES
    \* ---- DriveUploader._authenticate ----
    stored_token,       \* the credentials pickled in token.pickle, or none
    credentials_exists, \* the client secrets file exists
    auth_pc,            \* where _authenticate is
    creds,              \* its local variable creds
    service_creds,      \* the credentials the Drive service was built from
    constructions       \* the DriveUploader objects constructed so far

authVars == <<stored_token, credentials_exists, auth_pc, creds, service_creds, constructions>>


VARIABLES
    \* ---- update_status, one whole call ----
    last_write          \* the latest values().update: its row, arguments and the rows before it

trackVars == <<last_write>>


\* What the pipeline / the tracker / the uploader / the parser leaves alone.
notPipeVars == <<sheetVars, upVars, parseVars, genVars, helperVars, stageVars, monVars, scoreVars, secVars, authVars, trackVars>>

notSheetVars == <<pipeVars, upVars, parseVars, genVars, helperVars, stageVars, monVars, scoreVars, secVars, authVars, trackVars>>

notUpVars == <<pipeVars, sheetVars, parseVars, genVars, helperVars, stageVars, monVars, scoreVars, secVars, authVars, trackVars>>

notParseVars == <<pipeVars, sheetVars, upVars, genVars, helperVars, stageVars, monVars, scoreVars, secVars, authVars, trackVars>>

notGenVars == <<pipeVars, sheetVars, upVars, parseVars, helperVars, stageVars, monVars, scoreVars, secVars, authVars, trackVars>>

notHelperVars == <<pipeVars, sheetVars, upVars, parseVars, genVars, stageVars, monVars, scoreVars, secVars, authVars, trackVars>>

notStageVars == <<pipeVars, sheetVars, upVars, parseVars, genVars, helperVars, monVars, scoreVars, secVars, authVars, trackVars>>

notMonVars == <<pipeVars, sheetVars, upVars, parseVars, genVars, helperVars, stageVars, scoreVars, secVars, authVars, trackVars>>

notScoreVars == <<pipeVars, sheetVars, upVars, parseVars, genVars, helperVars, stageVars, monVars, secVars, authVars, trackVars>>

notSecVars == <<pipeVars, sheetVars, upVars, parseVars, genVars, helperVars, stageVars, monVars, scoreVars, authVars, trackVars>>

notAuthVars == <<pipeVars, sheetVars, upVars, parseVars, genVars, helperVars, stageVars, monVars, scoreVars, secVars, trackVars>>

notTrackVars == <<pipeVars, sheetVars, upVars, parseVars, genVars, helperVars, stageVars, monVars, scoreVars, secVars, authVars>>

vars == <<pipeVars, sheetVars, upVars, parseVars, genVars, helperVars, stageVars, monVars, scoreVars, secVars, authVars, trackVars>>

----------------------------------------------------------------------------
(* Pipeline orchestrators *)

Runs == {"r1", "r2"}

StageOrder == <<"discovery", "script", "narration", "images", "assembly", "upload">>

NumStages == Len(StageOrder)

\* Every run of the model happens on this day.
Today == "2026-01-01"

\* Topic titles and project names the sheet or the discovery can produce.
Titles == {"Lendas Urbanas", "Lendas_Urbanas", "IA"}

NoTitle == "<no title>"

AutoName == "Conteudo_Auto_2026-01-01"

\* str.replace(' ', '_') on the names of the model.
ReplaceSpaces(name) == IF name = "Lendas Urbanas" THEN "Lendas_Urbanas" ELSE name

\* OUTPUT_DIR / f"{today}_{name}": the two orchestrators have different bases.
ProjectDir(k, name) == <<k, Today, ReplaceSpaces(name)>>

TopicsDir == <<"automatizado", Today, "trending_topics">>

NoDir == <<"none", "none", "none">>

ProjectDirs == {ProjectDir(k, n) : k \in {"integrado", "automatizado"},
                                  n \in Titles \cup {AutoName}}

\* Values a stage gives back to the orchestrator.
None == [t |-> "none"]
ExitCode(c) == [t |-> "exit", code |-> c]
TopicList(ts) == [t |-> "topics", titles |-> ts]
ScriptResult(d, n) == [t |-> "script", dir |-> d, segs |-> n]
Bool(b) == [t |-> "bool", b |-> b]

\* The statuses of the stages with those of the narration and image stages
\* exchanged.
StatusOfSwapped == <<"Conteudo Descoberto", "Roteiro Gerado", "Imagens Processadas",
                     "Narracao Gerada", "Video Montado", "Upload Concluido">>

\* The status each stage of PipelineIntegrado records in column D.
StatusOf == <<"Conteudo Descoberto", "Roteiro Gerado", "Narracao Gerada",
              "Imagens Processadas", "Video Montado", "Upload Concluido">>

\* A row of 'Producao': project name, two free columns, status.
ProdRow(name, status) == <<name, "", "", status>>

ProducaoInits ==
    { <<>>,
      <<ProdRow("Lendas Urbanas", "Pendente")>>,
      <<ProdRow("IA", "Upload Concluido"), <<"Lendas_Urbanas">>, ProdRow("IA", "")>> }

\* The scan of _obter_proximo_projeto over the rows of A2:D50.
PendingRow(row) ==
    Len(row) >= 4 /\ (Len(row) < 4 \/ row[4] = "" \/ row[4] = "Pendente")

_obter_proximo_projeto(rows) ==
    LET hits == {i \in 1..Len(rows) : PendingRow(rows[i])}
    IN  IF hits = {} THEN [found |-> FALSE, row_index |-> 0, name |-> "none"]
        ELSE LET i == CHOOSE j \in hits : \A k \in hits : j <= k
             IN  [found |-> TRUE, row_index |-> i + 1,
                  name |-> IF Len(rows[i]) > 0 THEN rows[i][1] ELSE "none"]

\* values().update of one cell: the row is padded up to the column.
SetCell(row, col, val) ==
    [j \in 1..(IF Len(row) >= col THEN Len(row) ELSE col) |->
        IF j = col THEN val ELSE IF j <= Len(row) THEN row[j] ELSE ""]

\* _update_sheet_status(row_index, status, url) on the rows of the sheet.
_update_sheet_status(rows, row_index, status, url) ==
    LET i == row_index - 1
        padded == [j \in 1..(IF Len(rows) >= i THEN Len(rows) ELSE i) |->
                      IF j <= Len(rows) THEN rows[j] ELSE <<>>]
        withD == [padded EXCEPT ![i] = SetCell(@, 4, status)]
    IN  IF i < 1 THEN rows
        ELSE IF url = "none" THEN withD
        ELSE [withD EXCEPT ![i] = SetCell(@, 5, url)]

\* A launch that does not wait for the stage (as Popen would).
CallReturnedNoWait(r, s) == TRUE

\* os.system / subprocess.run / a method call: the caller goes on only when
\* the stage it called has ended.
CallReturned(r, s) == s \notin proc[r]

\* An orchestrator that runs the stage again instead of going on.
NextStageRetry(s) == s

\* The nested ifs of executar_pipeline_completo and the steps of run_pipeline.
NextStage(s) == s + 1

\* A run_pipeline that goes on whatever narration, images, assembly and
\* upload returned.
StageTruthyIgnored(s, v) ==
    CASE v.t = "topics" -> v.titles # <<>>
      [] v.t = "script" -> v.dir # <<"none", "none", "none">> /\ v.segs # 0
      [] OTHER          -> TRUE

\* The truthiness tests of run_pipeline on what a stage returned.
StageTruthy(s, v) ==
    CASE v.t = "topics" -> v.titles # <<>>
      [] v.t = "script" -> v.dir # NoDir /\ v.segs # 0
      [] v.t = "bool"   -> v.b
      [] OTHER          -> FALSE

\* What a stage can give back.
StageOutcomes(k, s, r) ==
    IF k = "integrado" THEN {ExitCode(0), ExitCode(1)}
    ELSE CASE s = 1 -> {TopicList(<<>>)} \cup
                       {TopicList(<<t>>) : t \in Titles \cup {NoTitle}}
           [] s = 2 -> {ScriptResult(NoDir, 0), ScriptResult(project[r], 0),
                        ScriptResult(project[r], 1)}
           [] OTHER -> {Bool(TRUE), Bool(FALSE)}

\* The directory a stage works in.
DirOf(r, s) ==
    IF kind[r] = "automatizado" /\ s = 1 THEN TopicsDir ELSE project[r]

\* The stages that are working in directory d right now.
Accessing(d) == {<<r, s>> \in Runs \X (1..NumStages) : s \in proc[r] /\ DirOf(r, s) = d}

PipeInit ==
    /\ kind = [r \in Runs |-> "none"]
    /\ pc = [r \in Runs |-> [stage |-> 0, phase |-> "idle"]]
    /\ proc = [r \in Runs |-> {}]
    /\ exitv = [r \in Runs |-> None]
    /\ started = [r \in Runs |-> <<>>]
    /\ result = [r \in Runs |-> "none"]
    /\ project = [r \in Runs |-> NoDir]
    /\ topic = [r \in Runs |-> "none"]
    /\ rowIndex = [r \in Runs |-> 0]
    /\ sheetOn \in BOOLEAN
    /\ producao \in ProducaoInits
    /\ driveUrl = [d \in ProjectDirs |-> "none"]
    /\ statusWritten = [r \in Runs |-> 0]

\* A pipeline process is launched (__main__, the scheduled job, or the
\* dashboard's POST /run, which does not wait for it).
StartRun(r) ==
    /\ kind[r] = "none"
    /\ \E k \in {"integrado", "automatizado"} : kind' = [kind EXCEPT ![r] = k]
    /\ pc' = [pc EXCEPT ![r] = [stage |-> 1, phase |-> "before"]]
    /\ UNCHANGED <<proc, exitv, started, result, project, topic, rowIndex,
                   sheetOn, producao, driveUrl, statusWritten>>
    /\ UNCHANGED notPipeVars

\* descobrir_conteudo up to its os.system call.
descobrir_conteudo_call(r) ==
    /\ kind[r] = "integrado"
    /\ pc[r] = [stage |-> 1, phase |-> "before"]
    /\ \E apiOk \in BOOLEAN :
         LET next == IF sheetOn /\ apiOk THEN _obter_proximo_projeto(producao)
                     ELSE [found |-> FALSE, row_index |-> 0, name |-> "none"]
             name == IF next.name \in {"none", ""} THEN AutoName ELSE next.name
         IN  /\ topic' = [topic EXCEPT ![r] = name]
             /\ project' = [project EXCEPT ![r] = ProjectDir("integrado", name)]
             /\ rowIndex' = [rowIndex EXCEPT ![r] = IF next.found THEN next.row_index ELSE @]
    /\ pc' = [pc EXCEPT ![r].phase = "waiting"]
    /\ proc' = [proc EXCEPT ![r] = @ \cup {1}]
    /\ started' = [started EXCEPT ![r] = Append(@, StageOrder[1])]
    /\ UNCHANGED <<kind, exitv, result, sheetOn, producao, driveUrl, statusWritten>>
    /\ UNCHANGED notPipeVars

\* Any other stage is called: gerar_roteiro .. upload_drive up to os.system,
\* discover_trending_topics .. upload_to_drive.
StageCall(r) ==
    /\ kind[r] # "none"
    /\ pc[r].phase = "before"
    /\ ~(kind[r] = "integrado" /\ pc[r].stage = 1)
    /\ LET s == pc[r].stage
       IN  /\ proc' = [proc EXCEPT ![r] = @ \cup {s}]
           /\ started' = [started EXCEPT ![r] = Append(@, StageOrder[s])]
           /\ project' = [project EXCEPT ![r] =
                  IF kind[r] = "automatizado" /\ s = 2
                  THEN ProjectDir("automatizado", topic[r]) ELSE @]
    /\ pc' = [pc EXCEPT ![r].phase = "waiting"]
    /\ UNCHANGED <<kind, exitv, result, topic, rowIndex, sheetOn, producao, driveUrl,
                   statusWritten>>
    /\ UNCHANGED notPipeVars

\* The stage called by run r ends and leaves its exit status or return value.
\* A successful drive_uploader.py writes drive_url.txt (_save_upload_info),
\* unless that write fails, which is only logged.
StageExit(r) ==
    /\ \E s \in proc[r] :
      /\ \E v \in StageOutcomes(kind[r], s, r) : exitv' = [exitv EXCEPT ![r] = v]
      /\ proc' = [proc EXCEPT ![r] = @ \ {s}]
      /\ IF kind[r] = "integrado" /\ s = NumStages /\ exitv'[r] = ExitCode(0)
         THEN \E saved \in BOOLEAN :
                driveUrl' = IF saved THEN [driveUrl EXCEPT ![project[r]] = r] ELSE driveUrl
         ELSE UNCHANGED driveUrl
      /\ UNCHANGED <<kind, pc, started, result, project, topic, rowIndex,
                     sheetOn, producao, statusWritten>>
    /\ UNCHANGED notPipeVars

Finish(r, res) ==
    /\ pc' = [pc EXCEPT ![r] = [stage |-> 0, phase |-> "done"]]
    /\ result' = [result EXCEPT ![r] = res]

Advance(r, s) ==
    IF s = NumStages THEN Finish(r, "True")
    ELSE /\ pc' = [pc EXCEPT ![r] = [stage |-> NextStage(s), phase |-> "before"]]
         /\ UNCHANGED result

\* The rest of a stage method of PipelineIntegrado after os.system, and the
\* test of its result in executar_pipeline_completo.
IntegradoReturn(r) ==
    /\ kind[r] = "integrado"
    /\ pc[r].phase = "waiting"
    /\ CallReturned(r, pc[r].stage)
    /\ LET s == pc[r].stage
           url == IF s = NumStages THEN driveUrl[project[r]] ELSE "none"
           code == IF exitv[r].t = "exit" THEN exitv[r].code ELSE 0
       IN  IF rowIndex[r] = 0
           THEN \* self.row_index was never set: AttributeError, caught
                /\ Finish(r, "False")
                /\ UNCHANGED <<producao, statusWritten>>
           ELSE \* either update of _update_sheet_status may raise; the
                \* exception is logged and the stage method goes on
                /\ \E apiOk \in BOOLEAN, urlOk \in BOOLEAN :
                     IF sheetOn /\ apiOk
                     THEN /\ producao' = _update_sheet_status(producao, rowIndex[r], StatusOf[s],
                                                              IF urlOk THEN url ELSE "none")
                          /\ statusWritten' = [statusWritten EXCEPT ![r] = s]
                     ELSE UNCHANGED <<producao, statusWritten>>
                /\ IF s = NumStages /\ code # 0
                   THEN Finish(r, "False")
                   ELSE Advance(r, s)
    /\ exitv' = [exitv EXCEPT ![r] = None]
    /\ UNCHANGED <<kind, proc, started, project, topic, rowIndex, sheetOn, driveUrl>>
    /\ UNCHANGED notPipeVars

\* run_pipeline after a stage method returned.
AutomatizadoReturn(r) ==
    /\ kind[r] = "automatizado"
    /\ pc[r].phase = "waiting"
    /\ CallReturned(r, pc[r].stage)
    /\ LET s == pc[r].stage
           v == exitv[r]
       IN  IF ~StageTruthy(s, v)
           THEN Finish(r, "False") /\ UNCHANGED topic
           ELSE IF s = 1 /\ v.t = "topics"
           THEN IF v.titles[1] = NoTitle
                THEN \* selected_topic['title'] raises KeyError
                     Finish(r, "raised") /\ UNCHANGED topic
                ELSE Advance(r, s) /\ topic' = [topic EXCEPT ![r] = v.titles[1]]
           ELSE Advance(r, s) /\ UNCHANGED topic
    /\ exitv' = [exitv EXCEPT ![r] = None]
    /\ UNCHANGED <<kind, proc, started, project, rowIndex, sheetOn, producao, driveUrl,
                   statusWritten>>
    /\ UNCHANGED notPipeVars

\* No pipeline process exists.
PipeIdle == PipeInit /\ sheetOn = FALSE /\ producao = <<>>

----------------------------------------------------------------------------
(* SheetsTracker.update_status *)

\* Processes that call update_status (pipeline runs, the dashboard).
Trackers == {"p1", "p2"}

\* The sheet is not let grow beyond this many rows.
MaxRows == 3

Dates == <<"2026-01-01", "2026-01-02">>

Topics == {"IA", "Lendas"}

\* The arguments of a call besides the topic ("none": argument omitted).
CallArgs ==
    { [status |-> "Iniciado", step |-> "Descoberta", duration |-> "none",
       drive_url |-> "none", errors |-> "none"],
      [status |-> "Concluido", step |-> "Upload", duration |-> "0",
       drive_url |-> "https://drive/f", errors |-> "TTS"] }

Header == <<"Data", "Topico", "Status", "Etapa Atual", "Duracao (s)",
            "URL Drive", "Erros", "Timestamp">>

\* row_data of update_status.
row_data(date, tp, a) ==
    << date, tp, a.status, a.step,
       IF a.duration # "none" THEN a.duration ELSE "",
       IF a.drive_url \notin {"none", ""} THEN a.drive_url ELSE "",
       IF a.errors \notin {"none", ""} THEN a.errors ELSE "",
       date >>

SheetInits ==
    { <<>>,
      <<Header>>,
      << <<>>, row_data(Dates[1], "IA", CHOOSE a \in CallArgs : a.status = "Iniciado")>> }

\* The loop of update_status over the rows read: the 1-based number of the
\* first row holding (date, topic), or 0.
FindRow(rows, date, tp) ==
    LET hits == {i \in 1..Len(rows) :
                    Len(rows[i]) >= 2 /\ rows[i][1] = date /\ rows[i][2] = tp}
    IN  IF hits = {} THEN 0 ELSE CHOOSE i \in hits : \A j \in hits : i <= j

\* A row selection that never looks for an existing row.
SelectRowAppendOnly(rows, date, tp) == Len(rows) + 1

\* row_index of update_status.
SelectRow(rows, date, tp) ==
    IF FindRow(rows, date, tp) # 0 THEN FindRow(rows, date, tp) ELSE Len(rows) + 1

\* An update that leaves a cell alone when the value written is empty.
SheetUpdateKeep(rows, i, row) ==
    [j \in 1..(IF Len(rows) >= i THEN Len(rows) ELSE i) |->
        IF j = i
        THEN [k \in 1..Len(row) |->
                IF row[k] = "" /\ Len(rows) >= i /\ Len(rows[i]) >= k THEN rows[i][k] ELSE row[k]]
        ELSE IF j <= Len(rows) THEN rows[j] ELSE <<>>]

\* values().update(range = A{i}:H{i}) on the rows of the sheet.
SheetUpdate(rows, i, row) ==
    [j \in 1..(IF Len(rows) >= i THEN Len(rows) ELSE i) |->
        IF j = i THEN row ELSE IF j <= Len(rows) THEN rows[j] ELSE <<>>]

NoCall == [pc |-> "idle", topic |-> "none", args |-> "none", date |-> "none",
           nrows |-> 0, row_index |-> 0, ret |-> "none"]

\* A tracker that selects the row again when it writes (as under a lock).
WriteIndexFresh(c) == SelectRow(sheet, call[c].date, call[c].topic)

\* The row the update of a call goes to: the one selected from the rows read.
WriteIndex(c) == call[c].row_index

TrackerInit ==
    /\ trackerOn \in BOOLEAN
    /\ today = 1
    /\ sheet \in SheetInits
    /\ call = [c \in Trackers |-> NoCall]

\* No tracker exists.
SheetsIdle ==
    /\ trackerOn = FALSE
    /\ today = 1
    /\ sheet = <<>>
    /\ call = [c \in Trackers |-> NoCall]

\* update_status up to and including values().get and the choice of the row.
update_status_read(c) ==
    /\ call[c].pc \in {"idle", "done"}
    /\ Len(sheet) < MaxRows
    /\ \E tp \in Topics, a \in CallArgs, apiOk \in BOOLEAN :
         call' = [call EXCEPT ![c] =
            IF ~trackerOn \/ ~apiOk
            THEN [NoCall EXCEPT !.pc = "done", !.ret = "False"]
            ELSE [pc |-> "write", topic |-> tp, args |-> a, date |-> Dates[today],
                  nrows |-> Len(sheet),
                  row_index |-> SelectRow(sheet, Dates[today], tp),
                  ret |-> "none"]]
    /\ UNCHANGED <<trackerOn, today, sheet>>
    /\ UNCHANGED notSheetVars

\* The rest of update_status: values().update and the return.
update_status_write(c) ==
    /\ call[c].pc = "write"
    /\ \E apiOk \in BOOLEAN :
         IF apiOk
         THEN /\ sheet' = SheetUpdate(sheet, WriteIndex(c),
                                      row_data(call[c].date, call[c].topic, call[c].args))
              /\ call' = [call EXCEPT ![c].pc = "done", ![c].args = "none", ![c].ret = "True"]
         ELSE /\ UNCHANGED sheet
              /\ call' = [call EXCEPT ![c] = [NoCall EXCEPT !.pc = "done", !.ret = "False"]]
    /\ UNCHANGED <<trackerOn, today>>
    /\ UNCHANGED notSheetVars

\* The calls of the other trackers have returned.
NoOtherCall(c) == \A o \in Trackers \ {c} : call[o].pc # "write"

\* A call that starts when no other call is in progress.
update_status_seq(c) == NoOtherCall(c) /\ update_status_read(c)

\* No update has been sent.
NoWrite == [by |-> "none"]

TrackIdle == last_write = NoWrite

\* One whole call of update_status: values().get, the choice of the row,
\* row_data, values().update and the return.
update_status(c) ==
    /\ call[c].pc \in {"idle", "done"}
    /\ Len(sheet) < MaxRows
    /\ \E tp \in Topics, a \in CallArgs, getOk \in BOOLEAN, updateOk \in BOOLEAN :
         LET i == SelectRow(sheet, Dates[today], tp)
         IN  IF ~trackerOn \/ ~getOk \/ ~updateOk
             THEN /\ call' = [call EXCEPT ![c] = [NoCall EXCEPT !.pc = "done", !.ret = "False"]]
                  /\ UNCHANGED <<sheet, last_write>>
             ELSE /\ sheet' = SheetUpdate(sheet, i, row_data(Dates[today], tp, a))
                  /\ call' = [call EXCEPT ![c] =
                        [pc |-> "done", topic |-> tp, args |-> "none", date |-> Dates[today],
                         nrows |-> Len(sheet), row_index |-> i, ret |-> "True"]]
                  /\ last_write' = [by |-> c, row_index |-> i, date |-> Dates[today],
                                    topic |-> tp, args |-> a, before |-> sheet]
    /\ UNCHANGED <<trackerOn, today>>
    /\ UNCHANGED <<pipeVars, upVars, parseVars, genVars, helperVars, stageVars, monVars,
                   scoreVars, secVars, authVars>>

\* The day changes.
Midnight ==
    /\ today < Len(Dates)
    /\ today' = today + 1
    /\ UNCHANGED <<trackerOn, sheet, call>>
    /\ UNCHANGED notSheetVars


----------------------------------------------------------------------------
(* DriveUploader.upload_directory *)

\* The directory holds at most this many files.
MaxFiles == 2

\* File names are told apart by their suffix.
Suffixes == {".txt", ".MP4", ".json", ".xyz"}

\* str.lower() on the suffixes and command names of the model.
Lower(suffix) ==
    CASE suffix = ".MP4" -> ".mp4"
      [] suffix = ".JPG" -> ".jpg"
      [] suffix = ".Txt" -> ".txt"
      [] suffix = "LS" -> "ls"
      [] OTHER -> suffix

\* folder_mapping of upload_directory, in insertion order.
folder_mapping ==
    << <<"scripts", {".py", ".txt", ".md"}>>,
       <<"audio", {".mp3", ".wav", ".m4a"}>>,
       <<"images", {".jpg", ".jpeg", ".png", ".gif"}>>,
       <<"videos", {".mp4", ".avi", ".mov"}>>,
       <<"data", {".json", ".csv", ".xml"}>> >>

\* The folders upload_directory creates: the project folder, then one
\* subfolder per key of folder_mapping.
FolderOrder == <<"main">> \o [i \in 1..Len(folder_mapping) |-> folder_mapping[i][1]]

\* A search that keeps the last folder whose list holds the suffix.
_determine_target_folder_last(suffix, mapping) ==
    LET hits == {i \in 1..Len(mapping) : Lower(suffix) \in mapping[i][2]}
    IN  IF hits = {} THEN "data"
        ELSE mapping[CHOOSE i \in hits : \A j \in hits : i >= j][1]

\* _determine_target_folder: the first folder of the mapping, in its order,
\* whose list holds the lower-cased suffix; "data" when none does.
_determine_target_folder(suffix, mapping) ==
    LET hits == {i \in 1..Len(mapping) : Lower(suffix) \in mapping[i][2]}
    IN  IF hits = {} THEN "data"
        ELSE mapping[CHOOSE i \in hits : \A j \in hits : i <= j][1]

RECURSIVE SeqsUpTo(_, _)
SeqsUpTo(S, n) ==
    IF n = 0 THEN {<<>>}
    ELSE SeqsUpTo(S, n - 1) \cup
         {Append(q, x) : q \in {p \in SeqsUpTo(S, n - 1) : Len(p) = n - 1}, x \in S}

UploadIdle ==
    /\ upDir = [valid |-> FALSE, files |-> <<>>]
    /\ upPc = "idle"
    /\ upFolders = <<>>
    /\ upDone = <<>>
    /\ upUrlWrites = 0
    /\ upInfoWrites = 0
    /\ upSaveFailed = FALSE

UploadInit ==
    /\ upDir \in [valid : BOOLEAN, files : SeqsUpTo(Suffixes, MaxFiles)]
    /\ upPc = "start"
    /\ upFolders = <<>>
    /\ upDone = <<>>
    /\ upUrlWrites = 0
    /\ upInfoWrites = 0
    /\ upSaveFailed = FALSE

\* A manifest written while files are still to be uploaded.
ReadyToSaveInLoop == upPc = "files"

\* The loop over directory.rglob('*') has ended.
ReadyToSave == upPc = "files" /\ Len(upDone) = Len(upDir.files)

\* The test of the directory at the start of upload_directory.
upload_directory_check ==
    /\ upPc = "start"
    /\ upPc' = IF upDir.valid THEN "folders" ELSE "raised"
    /\ UNCHANGED <<upDir, upFolders, upDone, upUrlWrites, upInfoWrites, upSaveFailed>>
    /\ UNCHANGED notUpVars

\* create_folder for the project folder or the next subfolder; an HttpError
\* is logged and raised again.
create_folder ==
    /\ upPc = "folders"
    /\ \E ok \in BOOLEAN :
         IF ok
         THEN /\ upFolders' = Append(upFolders, FolderOrder[Len(upFolders) + 1])
              /\ upPc' = IF Len(upFolders') = Len(FolderOrder) THEN "files" ELSE "folders"
         ELSE /\ upPc' = "raised"
              /\ UNCHANGED upFolders
    /\ UNCHANGED <<upDir, upDone, upUrlWrites, upInfoWrites, upSaveFailed>>
    /\ UNCHANGED notUpVars

\* One turn of the loop over the files: upload_file into the target folder;
\* any exception is logged and raised again.
upload_file ==
    /\ upPc = "files"
    /\ Len(upDone) < Len(upDir.files)
    /\ \E ok \in BOOLEAN :
         IF ok
         THEN /\ LET f == upDir.files[Len(upDone) + 1]
                 IN  upDone' = Append(upDone,
                        [file |-> f,
                         folder |-> _determine_target_folder(f, folder_mapping)])
              /\ UNCHANGED upPc
         ELSE /\ upPc' = "raised"
              /\ UNCHANGED upDone
    /\ UNCHANGED <<upDir, upFolders, upUrlWrites, upInfoWrites, upSaveFailed>>
    /\ UNCHANGED notUpVars

\* _save_upload_info, first write: drive_url.txt. A failure is logged as a
\* warning and ends _save_upload_info.
save_drive_url ==
    /\ ReadyToSave
    /\ \E ok \in BOOLEAN :
         IF ok
         THEN /\ upUrlWrites' = upUrlWrites + 1
              /\ upPc' = "save_info"
              /\ UNCHANGED upSaveFailed
         ELSE /\ upSaveFailed' = TRUE
              /\ upPc' = "returned"
              /\ UNCHANGED upUrlWrites
    /\ UNCHANGED <<upDir, upFolders, upDone, upInfoWrites>>
    /\ UNCHANGED notUpVars

\* _save_upload_info, second write: upload_info.json; then upload_directory
\* returns uploaded_files.
save_upload_info ==
    /\ upPc = "save_info"
    /\ \E ok \in BOOLEAN :
         IF ok
         THEN /\ upInfoWrites' = upInfoWrites + 1
              /\ UNCHANGED upSaveFailed
         ELSE /\ upSaveFailed' = TRUE
              /\ UNCHANGED upInfoWrites
    /\ upPc' = "returned"
    /\ UNCHANGED <<upDir, upFolders, upDone, upUrlWrites>>
    /\ UNCHANGED notUpVars

----------------------------------------------------------------------------
(* PipelineAutomatizado.parse_script *)

\* A script is at most this many phrases long.
MaxScriptLen == 6

\* The phrases a script text is made of.
Phrases == {"[0:05]", "[01:30]", "a", "(Imagem: x )", "(Imagem:", ")", "\n"}

\* The text of a phrase as a sequence of chunks: a marker, a word, a blank,
\* the opening "(Imagem:" (any case, colon optional), ")" or a line feed.
PhraseChunks(ph) ==
    IF ph = "(Imagem: x )" THEN <<"(Imagem:", " ", "x", " ", ")">> ELSE <<ph>>

RECURSIVE TextOf(_)
TextOf(phs) ==
    IF phs = <<>> THEN <<>> ELSE PhraseChunks(Head(phs)) \o TextOf(Tail(phs))

\* The digit groups of the chunks that match \[(\d+):(\d+)\].
MarkerGroups ==
    [c \in {"[0:05]", "[01:30]"} |->
        IF c = "[0:05]" THEN [g1 |-> <<0>>, g2 |-> <<0, 5>>]
        ELSE [g1 |-> <<0, 1>>, g2 |-> <<3, 0>>]]

IsMarker(c) == c \in DOMAIN MarkerGroups

\* int() of a string of decimal digits.
RECURSIVE int(_)
int(digits) ==
    IF digits = <<>> THEN 0
    ELSE 10 * int(SubSeq(digits, 1, Len(digits) - 1)) + digits[Len(digits)]

\* The decimal digits of n.
RECURSIVE Digits(_)
Digits(n) == IF n < 10 THEN <<n>> ELSE Append(Digits(n \div 10), n % 10)

\* The format {n:02d}.
Format02d(n) == IF n < 10 THEN <<0, n>> ELSE Digits(n)

\* str.split('\n').
RECURSIVE split(_)
split(cs) ==
    LET nl == {i \in 1..Len(cs) : cs[i] = "\n"}
    IN  IF nl = {} THEN <<cs>>
        ELSE LET i == CHOOSE j \in nl : \A k \in nl : j <= k
             IN  <<SubSeq(cs, 1, i - 1)>> \o split(SubSeq(cs, i + 1, Len(cs)))

\* str.strip().
RECURSIVE strip(_)
strip(cs) ==
    IF cs = <<>> THEN <<>>
    ELSE IF Head(cs) = " " THEN strip(Tail(cs))
    ELSE IF cs[Len(cs)] = " " THEN strip(SubSeq(cs, 1, Len(cs) - 1))
    ELSE cs

\* timestamp_pattern.search(line): the place of the first marker, or 0.
timestamp_search(line) ==
    LET hits == {i \in 1..Len(line) : IsMarker(line[i])}
    IN  IF hits = {} THEN 0 ELSE CHOOSE i \in hits : \A j \in hits : i <= j

\* image_pattern.search(text): the first "(Imagem:" that a ")" follows, and
\* the text up to the first such ")" as group 1.
image_search(text) ==
    LET opens == {i \in 1..Len(text) :
                     text[i] = "(Imagem:" /\ \E k \in (i + 1)..Len(text) : text[k] = ")"}
    IN  IF opens = {} THEN [found |-> FALSE, start |-> 0, group1 |-> <<>>]
        ELSE LET i == CHOOSE j \in opens : \A k \in opens : j <= k
                 closes == {k \in (i + 1)..Len(text) : text[k] = ")"}
                 e == CHOOSE k \in closes : \A l \in closes : k <= l
             IN  [found |-> TRUE, start |-> i, group1 |-> SubSeq(text, i + 1, e - 1)]

\* A time computed with 100 seconds to the minute.
time_seconds_centesimal(minutes, seconds) == minutes * 100 + seconds

\* time_seconds of parse_script.
time_seconds(minutes, seconds) == minutes * 60 + seconds

\* The segment parse_script opens at a line with a marker at place m.
new_segment(line, m) ==
    LET minutes == int(MarkerGroups[line[m]].g1)
        seconds == int(MarkerGroups[line[m]].g2)
        text == strip(SubSeq(line, m + 1, Len(line)))
        image_match == image_search(text)
    IN  [timestamp |-> <<Format02d(minutes), Format02d(seconds)>>,
         time_seconds |-> time_seconds(minutes, seconds),
         text |-> IF image_match.found
                  THEN strip(SubSeq(text, 1, image_match.start - 1)) ELSE text,
         image_prompt |-> IF image_match.found THEN strip(image_match.group1) ELSE <<>>]

\* The branch of parse_script that continues the open segment with a line.
continue_segment(seg, line) ==
    LET image_match == image_search(line)
    IN  IF image_match.found
        THEN [seg EXCEPT !.image_prompt = strip(image_match.group1)]
        ELSE [seg EXCEPT !.text = @ \o <<" ">> \o line]

\* One turn of the loop of parse_script; st.current is <<>> for None.
parse_line(st, raw) ==
    LET line == strip(raw)
        m == timestamp_search(line)
    IN  IF line = <<>> THEN st
        ELSE IF m # 0
        THEN [segments |-> st.segments \o st.current,
              current |-> <<new_segment(line, m)>>]
        ELSE IF st.current # <<>>
        THEN [st EXCEPT !.current = <<continue_segment(st.current[1], line)>>]
        ELSE st

RECURSIVE parse_lines(_, _)
parse_lines(st, lines) ==
    IF lines = <<>> THEN st
    ELSE parse_lines(parse_line(st, Head(lines)), Tail(lines))

parse_script(text) ==
    LET st == parse_lines([segments |-> <<>>, current |-> <<>>], split(text))
    IN  st.segments \o st.current

ParseIdle ==
    /\ script = <<>>
    /\ parsed = TRUE
    /\ segments = <<>>

ParseInit ==
    /\ script = <<>>
    /\ parsed = FALSE
    /\ segments = <<>>

\* The generated script text grows by a phrase.
ScriptText(ph) ==
    /\ ~parsed
    /\ Len(script) < MaxScriptLen
    /\ script' = Append(script, ph)
    /\ UNCHANGED <<parsed, segments>>
    /\ UNCHANGED notParseVars

\* generate_script calls parse_script on the text.
parse_script_call ==
    /\ ~parsed
    /\ parsed' = TRUE
    /\ segments' = parse_script(TextOf(script))
    /\ UNCHANGED script
    /\ UNCHANGED notParseVars

----------------------------------------------------------------------------
(* ScriptGenerator._extract_sections and _timestamp_to_seconds *)

\* A raw script is at most this many phrases long.
MaxRawLen == 5

\* The phrases a raw script is made of: two [MM:SS] markers, a word, a
\* blank, a line feed and an opening bracket that starts no marker.
RawPhrases == {"[00:30]", "[01:00]", "a", " ", "\n", "["}

\* Group 1 of the chunks that match \[(\d{2}:\d{2})\].
SectionMarkers ==
    [c \in {"[00:30]", "[01:00]"} |-> IF c = "[00:30]" THEN "00:30" ELSE "01:00"]

\* \s
Whitespace == {" ", "\n"}

\* [^[\n]
TitleChars == {"a", " "}

\* str.strip() of a text that may hold line feeds.
RECURSIVE str_strip(_)
str_strip(cs) ==
    IF cs = <<>> THEN <<>>
    ELSE IF Head(cs) \in Whitespace THEN str_strip(Tail(cs))
    ELSE IF cs[Len(cs)] \in Whitespace THEN str_strip(SubSeq(cs, 1, Len(cs) - 1))
    ELSE cs

\* The match of \[(\d{2}:\d{2})\]\s*([^[\n]+)(.*?)(?=\[\d{2}:\d{2}\]|$) with
\* re.DOTALL that starts at place p of cs: \s* takes the longest run of
\* whitespace after which a title character follows, giving blanks back to
\* the title when none follows; the title is the longest run of title
\* characters; the content reaches to the next marker or the end.
section_match(cs, p) ==
    LET n == Len(cs)
        wsEnd == CHOOSE e \in p..n :
                    /\ \A i \in (p + 1)..e : cs[i] \in Whitespace
                    /\ (e = n \/ cs[e + 1] \notin Whitespace)
        blanks == {j \in (p + 1)..wsEnd : cs[j] = " "}
        titleStart == IF wsEnd < n /\ cs[wsEnd + 1] \in TitleChars THEN wsEnd + 1
                      ELSE IF blanks # {} THEN CHOOSE j \in blanks : \A k \in blanks : k <= j
                      ELSE 0
        titleEnd == CHOOSE e \in titleStart..n :
                       /\ \A i \in titleStart..e : cs[i] \in TitleChars
                       /\ (e = n \/ cs[e + 1] \notin TitleChars)
        nexts == {j \in (titleEnd + 1)..n : cs[j] \in DOMAIN SectionMarkers}
        end == IF nexts = {} THEN n + 1 ELSE CHOOSE j \in nexts : \A k \in nexts : j <= k
    IN  IF cs[p] \notin DOMAIN SectionMarkers \/ titleStart = 0
        THEN [found |-> FALSE, end |-> p, timestamp |-> "", title |-> <<>>, content |-> <<>>]
        ELSE [found |-> TRUE, end |-> end,
              timestamp |-> SectionMarkers[cs[p]],
              title |-> SubSeq(cs, titleStart, titleEnd),
              content |-> SubSeq(cs, titleEnd + 1, end - 1)]

\* re.findall(pattern, raw_script, re.DOTALL) from place pos on.
RECURSIVE findall(_, _)
findall(cs, pos) ==
    LET starts == {p \in pos..Len(cs) : section_match(cs, p).found}
    IN  IF starts = {} THEN <<>>
        ELSE LET p == CHOOSE q \in starts : \A r \in starts : q <= r
                 m == section_match(cs, p)
             IN  <<m>> \o findall(cs, m.end)

\* The sections of _extract_sections: timestamp, trimmed title and content.
_extract_sections(text) ==
    LET matches == findall(text, 1)
    IN  [i \in 1..Len(matches) |->
            [timestamp |-> matches[i].timestamp,
             title |-> str_strip(matches[i].title),
             content |-> str_strip(matches[i].content)]]

\* A timestamp string is at most this many characters long.
MaxTimestampLen == 5

\* The characters a timestamp string is made of.
TimestampChars == {"0", "1", "2", "5", ":", "x", "-", " ", "_"}

\* The decimal digits among them and their values.
DigitValue == [c \in {"0", "1", "2", "5"} |-> IF c = "0" THEN 0 ELSE IF c = "1" THEN 1 ELSE IF c = "2" THEN 2 ELSE 5]

\* str.split(sep).
RECURSIVE split_on(_, _)
split_on(cs, sep) ==
    LET at == {i \in 1..Len(cs) : cs[i] = sep}
    IN  IF at = {} THEN <<cs>>
        ELSE LET i == CHOOSE j \in at : \A k \in at : j <= k
             IN  <<SubSeq(cs, 1, i - 1)>> \o split_on(SubSeq(cs, i + 1, Len(cs)), sep)

\* The values of the digits of a string, underscores left out.
RECURSIVE digit_values(_)
digit_values(cs) ==
    IF cs = <<>> THEN <<>>
    ELSE (IF Head(cs) = "_" THEN <<>> ELSE <<DigitValue[Head(cs)]>>) \o digit_values(Tail(cs))

\* int(str): blanks around, an optional sign, then digits that single
\* underscores may separate; ok is FALSE where int raises ValueError.
parse_int(s) ==
    LET t == strip(s)
        negative == t # <<>> /\ Head(t) = "-"
        body == IF negative THEN Tail(t) ELSE t
        wellFormed ==
            /\ body # <<>>
            /\ \A i \in 1..Len(body) : body[i] \in DOMAIN DigitValue \cup {"_"}
            /\ body[1] # "_"
            /\ body[Len(body)] # "_"
            /\ \A i \in 1..(Len(body) - 1) : ~(body[i] = "_" /\ body[i + 1] = "_")
    IN  IF wellFormed
        THEN [ok |-> TRUE, value |-> IF negative THEN 0 - int(digit_values(body)) ELSE int(digit_values(body))]
        ELSE [ok |-> FALSE, value |-> 0]

\* An unpacking that takes any two or more values.
UnpacksAtLeastTwo(parts) == Len(parts) >= 2

\* `minutes, seconds = ...` unpacks exactly two values.
UnpacksTwo(parts) == Len(parts) = 2

_timestamp_to_seconds(ts) ==
    LET parts == split_on(ts, ":")
    IN  IF ~UnpacksTwo(parts) THEN 0
        ELSE IF ~parse_int(parts[1]).ok \/ ~parse_int(parts[2]).ok THEN 0
        ELSE parse_int(parts[1]).value * 60 + parse_int(parts[2]).value

GenIdle ==
    /\ raw_script = <<>>
    /\ extracted = TRUE
    /\ sections = <<>>
    /\ ts_input = <<>>
    /\ ts_converted = TRUE
    /\ ts_result = 0

ExtractInit ==
    /\ raw_script = <<>>
    /\ extracted = FALSE
    /\ sections = <<>>
    /\ ts_input = <<>>
    /\ ts_converted = TRUE
    /\ ts_result = 0

\* The raw script grows by a phrase.
RawText(ph) ==
    /\ ~extracted
    /\ Len(raw_script) < MaxRawLen
    /\ raw_script' = Append(raw_script, ph)
    /\ UNCHANGED <<extracted, sections, ts_input, ts_converted, ts_result>>
    /\ UNCHANGED notGenVars

\* _parse_script and extract_script_sections call _extract_sections.
_extract_sections_call ==
    /\ ~extracted
    /\ extracted' = TRUE
    /\ sections' = _extract_sections(raw_script)
    /\ UNCHANGED <<raw_script, ts_input, ts_converted, ts_result>>
    /\ UNCHANGED notGenVars

TimestampInit ==
    /\ raw_script = <<>>
    /\ extracted = TRUE
    /\ sections = <<>>
    /\ ts_input = <<>>
    /\ ts_converted = FALSE
    /\ ts_result = 0

\* The timestamp string grows by a character.
TimestampText(c) ==
    /\ ~ts_converted
    /\ Len(ts_input) < MaxTimestampLen
    /\ ts_input' = Append(ts_input, c)
    /\ UNCHANGED <<raw_script, extracted, sections, ts_converted, ts_result>>
    /\ UNCHANGED notGenVars

_timestamp_to_seconds_call ==
    /\ ~ts_converted
    /\ ts_converted' = TRUE
    /\ ts_result' = _timestamp_to_seconds(ts_input)
    /\ UNCHANGED <<raw_script, extracted, sections, ts_input>>
    /\ UNCHANGED notGenVars

----------------------------------------------------------------------------
(* DriveUploader._determine_target_folder and _get_mime_type *)

\* A folder mapping given by a caller has at most this many folders.
MaxMappingLen == 2

\* The dotted parts of the file names.
Extensions ==
    {".txt", ".py", ".json", ".mp3", ".wav", ".mp4", ".jpg", ".jpeg", ".png",
     ".gif", ".md", ".xyz", ".MP4", ".JPG", ".Txt"}

\* The file names: a bare stem, a hidden file, a stem with one or two
\* dotted parts.
FileNames ==
    {<<"test">>, <<".mp3">>}
        \cup {<<"test", x>> : x \in Extensions}
        \cup {<<"test", ".tar", x>> : x \in Extensions}

\* Path.suffix: the last dotted part of the name unless the name starts
\* with it.
PathSuffix(name) == IF Len(name) >= 2 THEN name[Len(name)] ELSE ""

\* The folders callers map extensions to.
MappingEntries ==
    { <<"audio", {".mp3", ".wav"}>>,
      <<"images", {".jpg", ".png"}>>,
      <<"media", {".mp3", ".jpg", ".mp4"}>>,
      <<"scripts", {".py", ".txt"}>> }

\* The dicts over these folders, in insertion order, and the mapping of
\* upload_directory.
Mappings ==
    {m \in SeqsUpTo(MappingEntries, MaxMappingLen) :
        \A i, j \in 1..Len(m) : m[i][1] = m[j][1] => i = j}
        \cup {folder_mapping}

\* mime_types of _get_mime_type.
mime_types ==
    [x \in {".txt", ".py", ".json", ".mp3", ".wav", ".mp4", ".jpg", ".jpeg", ".png", ".gif"} |->
        CASE x = ".txt" -> "text/plain"
          [] x = ".py" -> "text/x-python"
          [] x = ".json" -> "application/json"
          [] x = ".mp3" -> "audio/mpeg"
          [] x = ".wav" -> "audio/wav"
          [] x = ".mp4" -> "video/mp4"
          [] x = ".jpg" -> "image/jpeg"
          [] x = ".jpeg" -> "image/jpeg"
          [] x = ".png" -> "image/png"
          [] x = ".gif" -> "image/gif"]

\* A suffix looked up as it is spelled.
SuffixAsSpelled(name) == PathSuffix(name)

\* file_path.suffix.lower()
LowerSuffix(name) == Lower(PathSuffix(name))

_get_mime_type(name) ==
    IF LowerSuffix(name) \in DOMAIN mime_types
    THEN mime_types[LowerSuffix(name)]
    ELSE "application/octet-stream"

HelperIdle ==
    /\ file_path = <<>>
    /\ given_mapping = <<>>
    /\ target_folder = "data"
    /\ mime_type = "application/octet-stream"

HelperInit ==
    /\ file_path \in FileNames
    /\ given_mapping \in Mappings
    /\ target_folder = ""
    /\ mime_type = ""

\* upload_directory (or a caller with its own mapping) asks for the folder.
_determine_target_folder_call ==
    /\ target_folder = ""
    /\ target_folder' = _determine_target_folder(PathSuffix(file_path), given_mapping)
    /\ UNCHANGED <<file_path, given_mapping, mime_type>>
    /\ UNCHANGED notHelperVars

\* upload_file asks for the MIME type.
_get_mime_type_call ==
    /\ mime_type = ""
    /\ mime_type' = _get_mime_type(file_path)
    /\ UNCHANGED <<file_path, given_mapping, target_folder>>
    /\ UNCHANGED notHelperVars

----------------------------------------------------------------------------
(* The stages and the files they exchange in the project directory *)

\* A script has at most this many timestamped lines.
MaxSegments == 2

\* The lines the generated scripts are made of.
SampleLines ==
    { <<"[0:05]", "a", "(Imagem: x )", "\n">>,
      <<"[01:30]", "a", "\n">>,
      <<"[0:05]", "\n">> }

RECURSIVE Flatten(_)
Flatten(ss) == IF ss = <<>> THEN <<>> ELSE Head(ss) \o Flatten(Tail(ss))

\* The script texts the text API returns.
SampleScripts == {Flatten(ls) : ls \in SeqsUpTo(SampleLines, MaxSegments)}

\* The raw scripts ScriptGenerator gets from the text API.
SampleRawScripts ==
    { <<"[00:30]", " ", "a", "\n", "a", "\n", "[01:00]", " ", "a", "\n", "a">>,
      <<"[00:30]", " ", "a">>,
      <<"a">> }

\* A path in the project directory: the directory below the project
\* directory, the stem of the file name, its number and its extension.
File(dir, stem, n, ext) == [dir |-> dir, stem |-> stem, n |-> n, ext |-> ext]

Top == <<>>

ScriptJson == File(Top, "script", 0, ".json")

ScriptTxt == File(Top, "script", 0, ".txt")

TeleprompterTxt == File(Top, "teleprompter", 0, ".txt")

SegmentsJson == File(Top, "segments", 0, ".json")

TtsScriptJson == File(Top, "tts_script", 0, ".json")

AudioDir == <<"assets", "audio">>

ImagesDir == <<"assets", "images">>

\* Path.glob('*.<ext>') in a directory.
glob(dir, exts) == {f \in proj_files : f.dir = dir /\ f.ext \in exts}

\* A segment of parse_script as the dict the stages enrich; <<>> stands
\* for a key the dict does not have.
SegmentDict(seg) ==
    [timestamp |-> seg.timestamp, time_seconds |-> seg.time_seconds,
     text |-> seg.text, image_prompt |-> seg.image_prompt,
     audio_file |-> <<>>, image_file |-> <<>>, enhanced_image_prompt |-> <<>>]

SegmentDicts(segs) == [i \in 1..Len(segs) |-> SegmentDict(segs[i])]

\* A numbering that starts at one.
enumerate_from_one(place) == place

\* The i of enumerate(segments) for the place of a segment in the list.
enumerate(place) == place - 1

\* dict.get(key, default)
dict_get(d, key, default) == IF key \in DOMAIN d THEN d[key] ELSE default

\* An entry of the log: which program ran the stage, whether it succeeded,
\* and whether it found the input it looks for.
Ran(stage, by, ok, found) == [stage |-> stage, by |-> by, ok |-> ok, found |-> found]

StagesIdle ==
    /\ proj_files = {}
    /\ script_json = <<>>
    /\ segments_json = <<>>
    /\ script_segments = <<>>
    /\ run_segments = <<>>
    /\ stage_log = <<Ran("idle", "idle", FALSE, FALSE)>>

StagesInit ==
    /\ proj_files = {}
    /\ script_json = <<>>
    /\ segments_json = <<>>
    /\ script_segments = <<>>
    /\ run_segments = <<>>
    /\ stage_log = <<>>

\* PipelineAutomatizado.generate_script: script.txt, then parse_script and
\* segments.json; run_pipeline goes on only with a non-empty list.
generate_script ==
    /\ stage_log = <<>>
    /\ \E text \in SampleScripts, apiOk \in BOOLEAN :
          IF apiOk
          THEN LET segs == SegmentDicts(parse_script(TextOf(text)))
               IN  /\ proj_files' = proj_files \cup {ScriptTxt, SegmentsJson}
                   /\ segments_json' = segs
                   /\ script_segments' = segs
                   /\ run_segments' = segs
                   /\ stage_log' = <<Ran("script", "generate_script", segs # <<>>, TRUE)>>
          ELSE /\ stage_log' = <<Ran("script", "generate_script", FALSE, TRUE)>>
               /\ UNCHANGED <<proj_files, segments_json, script_segments, run_segments>>
    /\ UNCHANGED script_json
    /\ UNCHANGED notStageVars

\* The previous stage of run_pipeline returned a truthy value.
AfterStage(by) ==
    /\ stage_log # <<>>
    /\ stage_log[Len(stage_log)].by = by
    /\ stage_log[Len(stage_log)].ok

\* PipelineAutomatizado.generate_narration: tts_script.json, the TTS
\* subprocess, then audio_file in every segment and segments.json.
generate_narration ==
    /\ AfterStage("generate_script")
    /\ \E ttsOk \in BOOLEAN :
          IF ttsOk
          THEN LET segs == [i \in 1..Len(run_segments) |->
                              [run_segments[i] EXCEPT
                                  !.audio_file = <<"segment_", Format02d(enumerate(i)), ".wav">>]]
               IN  /\ run_segments' = segs
                   /\ segments_json' = segs
                   /\ proj_files' = proj_files \cup {TtsScriptJson, SegmentsJson}
                   /\ stage_log' = Append(stage_log, Ran("narration", "generate_narration", TRUE, TRUE))
          ELSE /\ proj_files' = proj_files \cup {TtsScriptJson}
               /\ stage_log' = Append(stage_log, Ran("narration", "generate_narration", FALSE, TRUE))
               /\ UNCHANGED <<run_segments, segments_json>>
    /\ UNCHANGED <<script_json, script_segments>>
    /\ UNCHANGED notStageVars

\* The fallback prompts of generate_images, used by position modulo their
\* number when a segment has no image prompt.
default_prompts ==
    << "Brazilian folklore creatures in a mystical forest, digital art style",
       "Ancient Amazonian legends, dramatic cinematic lighting",
       "Mysterious Brazilian folklore characters, professional photography",
       "Traditional cultural stories from Brazil, illustrated style",
       "Legendary creatures from South American folklore, fantasy art" >>

\* The prompt generate_images enhances for the segment at a place.
image_prompt_of(segment, place) ==
    IF strip(segment.image_prompt) = <<>>
    THEN <<default_prompts[(enumerate(place) % Len(default_prompts)) + 1]>>
    ELSE strip(segment.image_prompt)

\* PipelineAutomatizado.generate_images: for every segment the enhanced
\* prompt, image_file and a prompt file, then segments.json, then a
\* placeholder picture at each image_file where PIL manages to save one.
\* An exception while writing a prompt file leaves the later segments as
\* they were, segments.json unwritten and no picture made.
generate_images ==
    /\ AfterStage("generate_narration")
    /\ \E wrote \in 0..Len(run_segments) :
          LET n == Len(run_segments)
              reached == IF wrote = n THEN n ELSE wrote + 1
              segs == [i \in 1..n |->
                         IF i <= reached
                         THEN [run_segments[i] EXCEPT
                                  !.enhanced_image_prompt =
                                      <<"High quality, cinematic, 4K: ">> \o image_prompt_of(run_segments[i], i),
                                  !.image_file = <<"image_", Format02d(enumerate(i)), ".jpg">>]
                         ELSE run_segments[i]]
          IN  /\ run_segments' = segs
              /\ \E saved \in SUBSET (1..n) :
                    /\ wrote < n => saved = {}
                    /\ proj_files' = proj_files
                          \cup {File(ImagesDir, "prompt", enumerate(i), ".txt") : i \in 1..wrote}
                          \cup (IF wrote = n THEN {SegmentsJson} ELSE {})
                          \cup {File(ImagesDir, "image", enumerate(i), ".jpg") : i \in saved}
              /\ segments_json' = IF wrote = n THEN segs ELSE segments_json
              /\ stage_log' = Append(stage_log, Ran("images", "generate_images", wrote = n, TRUE))
    /\ UNCHANGED <<script_json, script_segments>>
    /\ UNCHANGED notStageVars

\* The sections save_script writes to script.json; of their keys the later
\* stages read none but these.
SectionDicts(secs) ==
    [i \in 1..Len(secs) |->
        [timestamp |-> secs[i].timestamp, title |-> secs[i].title, content |-> secs[i].content]]

\* script_generator.py: --topic is required; generate_script, then
\* save_script writes script.json, script.txt and teleprompter.txt.
script_generator_main ==
    /\ stage_log = <<>>
    /\ \E topicGiven \in BOOLEAN, apiOk \in BOOLEAN, raw \in SampleRawScripts :
          IF topicGiven /\ apiOk
          THEN /\ script_json' = SectionDicts(_extract_sections(raw))
               /\ proj_files' = proj_files \cup {ScriptJson, ScriptTxt, TeleprompterTxt}
               /\ stage_log' = <<Ran("script", "script_generator.main", TRUE, TRUE)>>
          ELSE /\ stage_log' = <<Ran("script", "script_generator.main", FALSE, TRUE)>>
               /\ UNCHANGED <<script_json, proj_files>>
    /\ UNCHANGED <<segments_json, script_segments, run_segments>>
    /\ UNCHANGED notStageVars

\* re.sub(r'\([^)]*\)', '', text) and re.sub(r'\[[^\]]*\]', '', text) on the
\* texts of the model, whose bracketed groups are the markers.
RECURSIVE remove_bracketed(_)
remove_bracketed(cs) ==
    IF cs = <<>> THEN <<>>
    ELSE (IF Head(cs) \in DOMAIN SectionMarkers THEN <<>> ELSE <<Head(cs)>>)
             \o remove_bracketed(Tail(cs))

\* NarrationGenerator.extract_narration_text for a script with sections.
RECURSIVE extract_narration_text(_)
extract_narration_text(secs) ==
    IF secs = <<>> THEN <<>>
    ELSE LET section == Head(secs)
             text == str_strip(remove_bracketed(str_strip(dict_get(section, "text", <<>>))))
         IN  (IF str_strip(dict_get(section, "text", <<>>)) # <<>> /\ text # <<>>
              THEN <<[section |-> dict_get(section, "title", <<>>),
                      timestamp |-> dict_get(section, "timestamp", ""),
                      text |-> text]>>
              ELSE <<>>)
             \o extract_narration_text(Tail(secs))

\* narration_generator.py: needs script.json; generate_narration writes one
\* audio file per section it could synthesize and the metadata file.
narration_generator_main ==
    /\ Len(stage_log) = 1
    /\ stage_log[1].stage = "script"
    /\ IF ScriptJson \notin proj_files \/ extract_narration_text(script_json) = <<>>
       THEN /\ stage_log' = Append(stage_log, Ran("narration", "narration_generator.main", FALSE, FALSE))
            /\ UNCHANGED proj_files
       ELSE \E synthesized \in SUBSET (1..Len(extract_narration_text(script_json))) :
               /\ proj_files' = proj_files
                     \cup {File(AudioDir, "narration", i, ".mp3") : i \in synthesized}
                     \cup {File(AudioDir, "narration_metadata", 0, ".json")}
               /\ stage_log' = Append(stage_log, Ran("narration", "narration_generator.main", TRUE, TRUE))
    /\ UNCHANGED <<script_json, segments_json, script_segments, run_segments>>
    /\ UNCHANGED notStageVars

\* image_processor.py: needs segments.json; writes one image per segment,
\* sets image_file and rewrites segments.json. A failed write ends the
\* program before segments.json is rewritten.
image_processor_main ==
    /\ Len(stage_log) = 2
    /\ stage_log[2].stage = "narration"
    /\ IF SegmentsJson \notin proj_files
       THEN /\ stage_log' = Append(stage_log, Ran("images", "image_processor.main", FALSE, FALSE))
            /\ UNCHANGED <<proj_files, segments_json>>
       ELSE \E wrote \in 0..Len(segments_json) :
               /\ proj_files' = proj_files
                     \cup {File(ImagesDir, "segment", enumerate(i), ".jpg") : i \in 1..wrote}
               /\ segments_json' =
                     IF wrote = Len(segments_json)
                     THEN [i \in 1..Len(segments_json) |->
                              [segments_json[i] EXCEPT
                                  !.image_file = <<"segment_", Format02d(enumerate(i)), ".jpg">>]]
                     ELSE segments_json
               /\ stage_log' = Append(stage_log,
                     Ran("images", "image_processor.main", wrote = Len(segments_json), TRUE))
    /\ UNCHANGED <<script_json, script_segments, run_segments>>
    /\ UNCHANGED notStageVars

\* video_assembler.py: the first audio file directly in the project
\* directory, the images of <project>/images or else of the project
\* directory, then FFmpeg or the mock video.
video_assembler_main ==
    /\ Len(stage_log) = 3
    /\ stage_log[3].stage = "images"
    /\ LET audio == glob(Top, {".mp3", ".wav", ".m4a"})
           images_dir == IF \E f \in proj_files : f.dir = <<"images">> THEN <<"images">> ELSE Top
           images == glob(images_dir, {".jpg", ".jpeg", ".png", ".gif"})
       IN  IF audio = {}
           THEN /\ stage_log' = Append(stage_log, Ran("video", "video_assembler.main", FALSE, FALSE))
                /\ UNCHANGED proj_files
           ELSE \E ffmpeg \in BOOLEAN, ok \in BOOLEAN :
                   /\ proj_files' =
                         IF ~ok THEN proj_files
                         ELSE IF ffmpeg THEN proj_files \cup {File(Top, "video_final", 0, ".mp4")}
                         ELSE proj_files \cup {File(Top, "video_info", 0, ".json")}
                   /\ stage_log' = Append(stage_log, Ran("video", "video_assembler.main", ok, images # {}))
    /\ UNCHANGED <<script_json, segments_json, script_segments, run_segments>>
    /\ UNCHANGED notStageVars

----------------------------------------------------------------------------
(* DependencyRiskMonitor *)

\* The calls of detect_dependency_changes followed.
MaxCalls == 6

\* The threads start_monitoring can create.
MaxThreads == 2

Threads == 1..MaxThreads

\* What calculate_dependency_hash can return: a digest, or "" after an
\* exception.
Hashes == {"", "sha256-a"}

\* A thread at a place of _monitoring_loop, holding no hash.
At(p) == [pc |-> p, hash |-> "none"]

\* The dict dependency_hashes after __init__.
NoHashes == [k \in {} |-> ""]

\* A handler that leaves the loop.
except_handler_leaves == "done"

\* The except clause of _monitoring_loop: the thread sleeps a minute and
\* goes back to the test of the loop.
except_handler == "error_sleep"

\* A comparison that forgets to store the hash it has just computed.
detect_dependency_changes_stale(hashes, current_hash) ==
    IF DOMAIN hashes = {}
    THEN [ret |-> TRUE, hashes |-> [k \in {"current"} |-> current_hash]]
    ELSE IF dict_get(hashes, "current", "none") # current_hash
    THEN [ret |-> TRUE,
          hashes |-> [k \in DOMAIN hashes \cup {"previous"} |->
                         IF k = "previous" THEN dict_get(hashes, "current", "") ELSE hashes[k]]]
    ELSE [ret |-> FALSE, hashes |-> hashes]

\* detect_dependency_changes for the hash just computed: what it returns
\* and the dict it leaves.
detect_dependency_changes(hashes, current_hash) ==
    IF DOMAIN hashes = {}
    THEN [ret |-> TRUE, hashes |-> [k \in {"current"} |-> current_hash]]
    ELSE IF dict_get(hashes, "current", "none") # current_hash
    THEN [ret |-> TRUE,
          hashes |-> [k \in DOMAIN hashes \cup {"previous", "current"} |->
                         IF k = "previous" THEN dict_get(hashes, "current", "")
                         ELSE current_hash]]
    ELSE [ret |-> FALSE, hashes |-> hashes]

\* DependencyRiskMonitor.__init__
MonitorIdle ==
    /\ is_monitoring = FALSE
    /\ monitor_thread = 0
    /\ thread = [t \in Threads |-> At("new")]
    /\ caller = "idle"
    /\ last_audit = FALSE
    /\ dependency_hashes = NoHashes
    /\ detect_log = <<>>

\* start_monitoring up to the assignment of is_monitoring; it returns at
\* once when monitoring is on.
start_monitoring ==
    /\ caller = "idle"
    /\ \E t \in Threads : thread[t].pc = "new"
    /\ IF is_monitoring
       THEN UNCHANGED <<is_monitoring, caller>>
       ELSE is_monitoring' = TRUE /\ caller' = "starting"
    /\ UNCHANGED <<monitor_thread, thread, last_audit, dependency_hashes, detect_log>>
    /\ UNCHANGED notMonVars

\* start_monitoring: the new Thread is stored in monitor_thread and started.
thread_start ==
    /\ caller = "starting"
    /\ LET t == CHOOSE u \in Threads : thread[u].pc = "new" /\ \A v \in Threads : thread[v].pc = "new" => u <= v
       IN  /\ monitor_thread' = t
           /\ thread' = [thread EXCEPT ![t] = At("test")]
    /\ caller' = "idle"
    /\ UNCHANGED <<is_monitoring, last_audit, dependency_hashes, detect_log>>
    /\ UNCHANGED notMonVars

\* stop_monitoring up to join.
stop_monitoring ==
    /\ caller = "idle"
    /\ is_monitoring' = FALSE
    /\ caller' = IF monitor_thread # 0 THEN "joining" ELSE "idle"
    /\ UNCHANGED <<monitor_thread, thread, last_audit, dependency_hashes, detect_log>>
    /\ UNCHANGED notMonVars

\* monitor_thread.join(timeout=5) returns: the thread has ended, or five
\* seconds have passed.
thread_join ==
    /\ caller = "joining"
    /\ caller' = "idle"
    /\ UNCHANGED <<is_monitoring, monitor_thread, thread, last_audit, dependency_hashes, detect_log>>
    /\ UNCHANGED notMonVars

\* `while self.is_monitoring`
_monitoring_loop(t) ==
    /\ thread[t].pc = "test"
    /\ thread' = [thread EXCEPT ![t] = At(IF is_monitoring THEN "hash" ELSE "done")]
    /\ UNCHANGED <<is_monitoring, monitor_thread, caller, last_audit, dependency_hashes, detect_log>>
    /\ UNCHANGED notMonVars

\* calculate_dependency_hash, called by detect_dependency_changes.
calculate_dependency_hash(t) ==
    /\ thread[t].pc = "hash"
    /\ \E h \in Hashes : thread' = [thread EXCEPT ![t] = [pc |-> "detect", hash |-> h]]
    /\ UNCHANGED <<is_monitoring, monitor_thread, caller, last_audit, dependency_hashes, detect_log>>
    /\ UNCHANGED notMonVars

\* The rest of detect_dependency_changes and the `if` on its result.
detect_dependency_changes_call(t) ==
    /\ thread[t].pc = "detect"
    /\ LET d == detect_dependency_changes(dependency_hashes, thread[t].hash)
       IN  /\ dependency_hashes' = d.hashes
           /\ thread' = [thread EXCEPT ![t] = At(IF d.ret THEN "assess_change" ELSE "audit_due")]
    /\ UNCHANGED <<is_monitoring, monitor_thread, caller, last_audit, detect_log>>
    /\ UNCHANGED notMonVars

\* The test for the periodic assessment: no audit yet, or the interval has
\* passed since the last one.
audit_due(t) ==
    /\ thread[t].pc = "audit_due"
    /\ \E elapsed \in BOOLEAN :
          thread' = [thread EXCEPT ![t] = At(IF ~last_audit \/ elapsed THEN "assess_audit" ELSE "sleep")]
    /\ UNCHANGED <<is_monitoring, monitor_thread, caller, last_audit, dependency_hashes, detect_log>>
    /\ UNCHANGED notMonVars

\* run_risk_assessment returns an assessment or raises (check_security_compliance
\* catches nothing).
run_risk_assessment(t) ==
    /\ thread[t].pc \in {"assess_change", "assess_audit"}
    /\ \E raised \in BOOLEAN :
          thread' = [thread EXCEPT ![t] =
              At(IF raised THEN except_handler
                 ELSE IF thread[t].pc = "assess_change" THEN "report_change" ELSE "report_audit")]
    /\ UNCHANGED <<is_monitoring, monitor_thread, caller, last_audit, dependency_hashes, detect_log>>
    /\ UNCHANGED notMonVars

\* process_risk_assessment writes the report file, or raises on the way;
\* after the periodic one last_audit is set and the thread sleeps.
process_risk_assessment(t) ==
    /\ thread[t].pc \in {"report_change", "report_audit"}
    /\ \E raised \in BOOLEAN :
          IF raised
          THEN thread' = [thread EXCEPT ![t] = At(except_handler)] /\ UNCHANGED last_audit
          ELSE IF thread[t].pc = "report_change"
          THEN thread' = [thread EXCEPT ![t] = At("audit_due")] /\ UNCHANGED last_audit
          ELSE thread' = [thread EXCEPT ![t] = At("sleep")] /\ last_audit' = TRUE
    /\ UNCHANGED <<is_monitoring, monitor_thread, caller, dependency_hashes, detect_log>>
    /\ UNCHANGED notMonVars

\* time.sleep returns.
sleep_returns(t) ==
    /\ thread[t].pc \in {"sleep", "error_sleep"}
    /\ thread' = [thread EXCEPT ![t] = At("test")]
    /\ UNCHANGED <<is_monitoring, monitor_thread, caller, last_audit, dependency_hashes, detect_log>>
    /\ UNCHANGED notMonVars

\* detect_dependency_changes called by a single caller, one call after the
\* other, with the hash each call computed and what it returned.
detect_dependency_changes_seq ==
    /\ Len(detect_log) < MaxCalls
    /\ \E h \in Hashes :
          LET d == detect_dependency_changes(dependency_hashes, h)
          IN  /\ dependency_hashes' = d.hashes
              /\ detect_log' = Append(detect_log, [hash |-> h, ret |-> d.ret])
    /\ UNCHANGED <<is_monitoring, monitor_thread, thread, caller, last_audit>>
    /\ UNCHANGED notMonVars

\* A step of monitoring thread t.
thread_step(t) ==
    \/ _monitoring_loop(t)
    \/ calculate_dependency_hash(t)
    \/ detect_dependency_changes_call(t)
    \/ audit_due(t)
    \/ run_risk_assessment(t)
    \/ process_risk_assessment(t)
    \/ sleep_returns(t)

----------------------------------------------------------------------------
(* DependencyRiskMonitor.calculate_risk_score *)

\* The most vulnerabilities of one severity, and violations of one kind.
MaxSevere == 2

\* The most outdated packages.
MaxOutdated == 5

min(a, b) == IF a <= b THEN a ELSE b

\* What scan_vulnerabilities returns: the findings by severity (here the
\* lengths of the lists), or an error dict.
VulnerabilityReports ==
    {[total |-> 0]} \cup
    {[critical |-> c, high |-> h, medium |-> m, total |-> c + h + m] :
        c \in 0..MaxSevere, h \in 0..MaxSevere, m \in 0..MaxSevere}

\* What check_outdated_packages returns.
OutdatedReports ==
    {[total |-> 0]} \cup
    {[total |-> t, critical_count |-> c] : t \in 0..MaxOutdated, c \in 0..MaxOutdated}

\* What check_security_compliance returns.
ComplianceReports ==
    {[critical_violations |-> c, high_violations |-> h] : c \in 0..MaxSevere, h \in 0..MaxSevere}

\* The assessments of run_risk_assessment.
Assessments ==
    [vulnerabilities : VulnerabilityReports,
     outdated_packages : OutdatedReports,
     security_compliance : ComplianceReports]

\* A score whose outdated part has no ceiling.
calculate_risk_score_uncapped(a) ==
    LET vuln_data == a.vulnerabilities
        outdated_data == a.outdated_packages
        compliance_data == a.security_compliance
        vuln_score == dict_get(vuln_data, "critical", 0) * 25
                      + dict_get(vuln_data, "high", 0) * 15
                      + dict_get(vuln_data, "medium", 0) * 5
        outdated_score == dict_get(outdated_data, "critical_count", 0) * 4
                          + dict_get(outdated_data, "total", 0) * 1
        compliance_score == dict_get(compliance_data, "critical_violations", 0) * 20
                            + dict_get(compliance_data, "high_violations", 0) * 10
    IN  min(100, (IF "total" \in DOMAIN vuln_data THEN min(40, vuln_score) ELSE 0)
                 + outdated_score
                 + min(40, compliance_score))

\* calculate_risk_score(assessment)
calculate_risk_score(a) ==
    LET vuln_data == a.vulnerabilities
        outdated_data == a.outdated_packages
        compliance_data == a.security_compliance
        vuln_score == dict_get(vuln_data, "critical", 0) * 25
                      + dict_get(vuln_data, "high", 0) * 15
                      + dict_get(vuln_data, "medium", 0) * 5
        outdated_score == dict_get(outdated_data, "critical_count", 0) * 4
                          + dict_get(outdated_data, "total", 0) * 1
        compliance_score == dict_get(compliance_data, "critical_violations", 0) * 20
                            + dict_get(compliance_data, "high_violations", 0) * 10
    IN  min(100, (IF "total" \in DOMAIN vuln_data THEN min(40, vuln_score) ELSE 0)
                 + min(20, outdated_score)
                 + min(40, compliance_score))

ScoreIdle ==
    /\ assessment = [vulnerabilities |-> [total |-> 0], outdated_packages |-> [total |-> 0],
                     security_compliance |-> [critical_violations |-> 0, high_violations |-> 0]]
    /\ risk_score = -1

ScoreInit ==
    /\ assessment \in Assessments
    /\ risk_score = -1

\* assessment["risk_score"] = self.calculate_risk_score(assessment)
calculate_risk_score_call ==
    /\ risk_score = -1
    /\ risk_score' = calculate_risk_score(assessment)
    /\ UNCHANGED assessment
    /\ UNCHANGED notScoreVars

----------------------------------------------------------------------------
(* The 'safe' subprocess wrappers *)

\* The command lists given to the wrappers.
Commands ==
    { <<>>, <<"ls">>, <<"LS", "-l">>, <<"/bin/ls", "x">>, <<"cat", "x">>,
      <<"rm", "-rf">>, <<"ls", "a;b">>, <<"ls", "a b">>, <<"ls", "it's">> }

\* The keyword arguments given to them: shell and timeout, each given or not.
Kwargs ==
    { [k \in (IF sh = {} THEN {} ELSE {"shell"}) \cup (IF tm = {} THEN {} ELSE {"timeout"}) |->
          IF k = "shell" THEN CHOOSE v \in sh : TRUE ELSE CHOOSE v \in tm : TRUE] :
        sh \in {{}, {TRUE}, {FALSE}}, tm \in {{}, {5}} }

\* shlex.quote on the arguments of the model.
shlex_quote(arg) ==
    CASE arg = "a;b" -> "'a;b'"
      [] arg = "a b" -> "'a b'"
      [] arg = "it's" -> "'it'\"'\"'s'"
      [] OTHER -> arg

\* Path(arg).name
PathName(arg) == IF arg = "/bin/ls" THEN "ls" ELSE arg

\* The characters of an argument that some wrapper calls dangerous.
CharsOf(arg) ==
    CASE arg = "a;b" -> {";"}
      [] arg = "it's" -> {"'"}
      [] arg = "a b" -> {" "}
      [] OTHER -> {}

\* dict.update and dict.setdefault
dict_update(d, other) ==
    [k \in DOMAIN d \cup DOMAIN other |-> IF k \in DOMAIN other THEN other[k] ELSE d[k]]

dict_setdefault(d, key, default) ==
    [k \in DOMAIN d \cup {key} |-> IF k \in DOMAIN d THEN d[k] ELSE default]

\* SecureSubprocessWrapper.allowed_commands and dangerous_commands
allowed_commands ==
    {"file", "stat", "wc", "du", "head", "tail", "ls", "cat", "grep", "find", "sort",
     "uniq", "cut", "awk", "sed", "tar", "gzip", "gunzip"}

dangerous_commands ==
    {"rm", "del", "format", "fdisk", "mkfs", "dd", "chmod", "chown", "sudo", "su",
     "passwd", "useradd", "userdel", "kill", "killall", "systemctl", "service", "mount",
     "umount", "wget", "curl", "nc", "sh", "bash", "zsh", "fish", "csh", "tcsh", "eval", "exec"}

\* ALLOWED_COMMANDS of main.safe_run_process
ALLOWED_COMMANDS == {"file", "stat", "wc", "du", "head", "tail", "ls"}

\* The dangerous characters of main.safe_run_process (the grave accent is
\* spelled out), and those validate_command_list adds.
dangerous_chars == {";", "&", "|", "grave", "$", "(", ")", "<", ">", "\n", "\r", "\t", "\\"}

dangerous_chars_quotes == dangerous_chars \cup {"\"", "'"}

\* SecureSubprocessWrapper.validate_command_list raises ValueError.
validate_command_list_raises(cmd) ==
    \/ cmd = <<>>
    \/ Lower(PathName(cmd[1])) \notin allowed_commands
    \/ Lower(PathName(cmd[1])) \in dangerous_commands
    \/ \E i \in 1..Len(cmd) : CharsOf(cmd[i]) \cap dangerous_chars_quotes # {}

\* Nothing was handed to subprocess.run or anyio.run_process.
NotHanded == [to |-> "none"]

Handed(to, cmd, kwargs) == [to |-> to, command |-> cmd, kwargs |-> kwargs]

\* safe_kwargs of safe_subprocess_run after safe_kwargs.update(kwargs).
safe_kwargs_updated(kwargs) ==
    dict_update([shell |-> FALSE, capture_output |-> TRUE, text |-> TRUE, check |-> FALSE,
                 timeout |-> 300], kwargs)

SecIdle ==
    /\ command = <<>>
    /\ given_kwargs = NoHashes
    /\ handed = NotHanded
    /\ wrap_result = "none"
    /\ platform = "posix"
    /\ given_path = [abs |-> FALSE, parts |-> <<>>]
    /\ path_result = [by |-> "none"]

WrapInit ==
    /\ command \in Commands
    /\ given_kwargs \in Kwargs
    /\ handed = NotHanded
    /\ wrap_result = "none"
    /\ platform = "posix"
    /\ given_path = [abs |-> FALSE, parts |-> <<>>]
    /\ path_result = [by |-> "none"]

\* SecureSubprocessWrapper.safe_run(command, **kwargs)
safe_run ==
    /\ wrap_result = "none"
    /\ IF validate_command_list_raises(command)
       THEN wrap_result' = "raised" /\ UNCHANGED handed
       ELSE /\ handed' = Handed("subprocess.run",
                                [i \in 1..Len(command) |-> shlex_quote(command[i])],
                                [shell |-> FALSE,
                                 timeout |-> dict_get(given_kwargs, "timeout", 30),
                                 check |-> FALSE, capture_output |-> TRUE, text |-> TRUE])
            /\ wrap_result' \in {"returned", "raised"}
    /\ UNCHANGED <<command, given_kwargs, platform, given_path, path_result>>
    /\ UNCHANGED notSecVars

\* main.safe_run_process(command, **kwargs): the arguments after the first
\* are quoted in the caller's list, then anyio.run_process gets the
\* keyword arguments with the defaults for those not given.
safe_run_process ==
    /\ wrap_result = "none"
    /\ IF \/ command = <<>>
          \/ Lower(command[1]) \notin ALLOWED_COMMANDS
          \/ \E i \in 1..Len(command) : CharsOf(command[i]) \cap dangerous_chars # {}
       THEN wrap_result' = "raised" /\ UNCHANGED <<handed, command>>
       ELSE LET quoted == [i \in 1..Len(command) |->
                              IF command[i] # command[1] THEN shlex_quote(command[i])
                              ELSE command[i]]
            IN  /\ command' = quoted
                /\ handed' = Handed("anyio.run_process", quoted,
                      dict_setdefault(dict_setdefault(dict_setdefault(
                          given_kwargs, "timeout", 30), "shell", FALSE), "check", FALSE))
                /\ wrap_result' \in {"returned", "raised"}
    /\ UNCHANGED <<given_kwargs, platform, given_path, path_result>>
    /\ UNCHANGED notSecVars

\* assets.safe_subprocess_run(command_list, **kwargs)
safe_subprocess_run ==
    /\ wrap_result = "none"
    /\ handed' = Handed("subprocess.run", command, safe_kwargs_updated(given_kwargs))
    /\ wrap_result' \in (IF command = <<>> THEN {"raised"} ELSE {"returned", "raised"})
    /\ UNCHANGED <<command, given_kwargs, platform, given_path, path_result>>
    /\ UNCHANGED notSecVars

----------------------------------------------------------------------------
(* SecurityConfig.validate_path and the examples that use it *)

\* The longest path given, in components.
MaxPathLen == 2

\* The components of the paths given: a file, a directory, the parent
\* directory and a file name with two dots in it.
PathParts == {"a.txt", "sub", "..", "a..b"}

\* The paths given: relative to the working directory or absolute.
Paths == [abs : BOOLEAN, parts : SeqsUpTo(PathParts, MaxPathLen) \ {<<>>}]

\* Path.cwd()
cwd == <<"srv", "app">>

\* The components left when '..' has been applied, from the root down.
RECURSIVE resolve_parts(_, _)
resolve_parts(done, rest) ==
    IF rest = <<>> THEN done
    ELSE IF Head(rest) = ".."
    THEN resolve_parts(IF done = <<>> THEN done ELSE SubSeq(done, 1, Len(done) - 1), Tail(rest))
    ELSE resolve_parts(Append(done, Head(rest)), Tail(rest))

\* Path(path).resolve(): absolute, without '..' components.
resolve(path) ==
    [abs |-> TRUE, parts |-> resolve_parts(IF path.abs THEN <<>> ELSE cwd, path.parts)]

\* '..' in str(path)
dotdot_in_str(path) == \E i \in 1..Len(path.parts) : path.parts[i] \in {"..", "a..b"}

\* str(path).startswith('/'): an absolute path begins with the root on
\* POSIX and with the drive on Windows.
str_startswith_slash(os, path) == os = "posix" /\ path.abs

\* SecurityConfig.validate_path(path): the resolved path, or ValueError.
validate_path(os, path) ==
    LET safe_path == resolve(path)
    IN  IF dotdot_in_str(safe_path) \/ str_startswith_slash(os, safe_path)
        THEN [raised |-> TRUE]
        ELSE [raised |-> FALSE, path |-> safe_path]

\* SecurityConfig.validate_command_list on a command that ends with
\* str(path): the commands of the examples are allowed, and the only
\* dangerous character a path of the model can bring is the backslash
\* that separates its components on Windows.
validate_command_list(os, cmd) == ~(os = "nt" /\ "\\" \in dangerous_chars_quotes)

\* The operations of safe_file_operations_example, and another one.
Operations == {"size", "lines", "type", "delete"}

PathInit ==
    /\ command = <<>>
    /\ given_kwargs = NoHashes
    /\ handed = NotHanded
    /\ wrap_result = "none"
    /\ platform \in {"posix", "nt"}
    /\ given_path \in Paths
    /\ path_result = [by |-> "none"]

\* SecurityConfig.validate_path called on the path.
validate_path_call ==
    /\ path_result.by = "none"
    /\ LET v == validate_path(platform, given_path)
       IN  path_result' = IF v.raised THEN [by |-> "validate_path", ok |-> FALSE]
                          ELSE [by |-> "validate_path", ok |-> TRUE, path |-> v.path]
    /\ UNCHANGED <<command, given_kwargs, handed, wrap_result, platform, given_path>>
    /\ UNCHANGED notSecVars

\* safe_file_info(filepath): success when validate_path returns, the
\* command passes validate_command_list and anyio.run_process returns;
\* every exception gives success False.
safe_file_info ==
    /\ path_result.by = "none"
    /\ LET v == validate_path(platform, given_path)
       IN  IF v.raised \/ ~validate_command_list(platform, <<"file", v.path>>)
           THEN path_result' = [by |-> "safe_file_info", ok |-> FALSE] /\ UNCHANGED handed
           ELSE /\ handed' = Handed("anyio.run_process", <<"file", v.path>>,
                                    [timeout |-> 30, check |-> FALSE, shell |-> FALSE])
                /\ \E ran \in BOOLEAN : path_result' = [by |-> "safe_file_info", ok |-> ran]
    /\ UNCHANGED <<command, given_kwargs, wrap_result, platform, given_path>>
    /\ UNCHANGED notSecVars

\* safe_file_operations_example(filename, operation)
safe_file_operations_example ==
    /\ path_result.by = "none"
    /\ \E operation \in Operations :
          LET v == validate_path(platform, given_path)
              args == CASE operation = "size" -> <<"stat", "-c", "%s">>
                        [] operation = "lines" -> <<"wc", "-l">>
                        [] OTHER -> <<"file", "-b">>
          IN  IF \/ v.raised
                 \/ operation \notin {"size", "lines", "type"}
                 \/ ~validate_command_list(platform, Append(args, v.path))
              THEN /\ path_result' = [by |-> "safe_file_operations_example", ok |-> FALSE]
                   /\ UNCHANGED handed
              ELSE /\ handed' = Handed("anyio.run_process", Append(args, v.path),
                                       [timeout |-> 30, check |-> FALSE, shell |-> FALSE])
                   /\ \E ran \in BOOLEAN :
                         path_result' = [by |-> "safe_file_operations_example", ok |-> ran]
    /\ UNCHANGED <<command, given_kwargs, wrap_result, platform, given_path>>
    /\ UNCHANGED notSecVars

----------------------------------------------------------------------------
(* DriveUploader._authenticate *)

\* The DriveUploader objects constructed one after the other.
MaxConstructions == 2

\* Credentials: whether they hold an access token, whether it has expired,
\* whether they hold a refresh token, and where they come from.
Credentials(token, expired, refresh_token, from) ==
    [token |-> token, expired |-> expired, refresh_token |-> refresh_token, from |-> from]

\* creds = None, and no token.pickle.
NoCreds == [from |-> "none"]

\* What token.pickle can hold.
StoredTokens ==
    {NoCreds} \cup
    {Credentials(t, x, r, "token.pickle") : t \in BOOLEAN, x \in BOOLEAN, r \in BOOLEAN}

\* Credentials.valid: there is a token and it has not expired.
valid(c) == c # NoCreds /\ c.token /\ ~c.expired

AuthIdle ==
    /\ stored_token = NoCreds
    /\ credentials_exists = FALSE
    /\ auth_pc = "idle"
    /\ creds = NoCreds
    /\ service_creds = NoCreds
    /\ constructions = 0

AuthInit ==
    /\ stored_token \in StoredTokens
    /\ credentials_exists \in BOOLEAN
    /\ auth_pc = "idle"
    /\ creds = NoCreds
    /\ service_creds = NoCreds
    /\ constructions = 0

\* DriveUploader(): __init__ calls _authenticate. Meanwhile the stored
\* access token may have expired.
DriveUploader_init ==
    /\ auth_pc \in {"idle", "returned", "raised"}
    /\ constructions < MaxConstructions
    /\ constructions' = constructions + 1
    /\ auth_pc' = "load"
    /\ creds' = NoCreds
    /\ service_creds' = NoCreds
    /\ \E later \in BOOLEAN :
          stored_token' = IF stored_token # NoCreds /\ later
                          THEN [stored_token EXCEPT !.expired = TRUE]
                          ELSE stored_token
    /\ UNCHANGED credentials_exists
    /\ UNCHANGED notAuthVars

\* The stored token is loaded if token.pickle exists, and the tests on
\* creds choose what comes next.
load_token ==
    /\ auth_pc = "load"
    /\ creds' = stored_token
    /\ auth_pc' = IF stored_token # NoCreds /\ valid(stored_token) THEN "build"
                  ELSE IF stored_token = NoCreds THEN "login"
                  ELSE IF stored_token.expired /\ stored_token.refresh_token THEN "refresh"
                  ELSE "save"
    /\ UNCHANGED <<stored_token, credentials_exists, service_creds, constructions>>
    /\ UNCHANGED notAuthVars

\* creds.refresh(Request()): a fresh token, or an exception after which
\* creds is None.
refresh ==
    /\ auth_pc = "refresh"
    /\ \E ok \in BOOLEAN :
          IF ok
          THEN /\ creds' = Credentials(TRUE, FALSE, TRUE, "refresh")
               /\ auth_pc' = "save"
          ELSE /\ creds' = NoCreds
               /\ auth_pc' = "login"
    /\ UNCHANGED <<stored_token, credentials_exists, service_creds, constructions>>
    /\ UNCHANGED notAuthVars

\* The interactive login: FileNotFoundError without the client secrets,
\* else the credentials of run_local_server, or its exception.
login ==
    /\ auth_pc = "login"
    /\ IF ~credentials_exists
       THEN auth_pc' = "raised" /\ UNCHANGED creds
       ELSE \E ok \in BOOLEAN, r \in BOOLEAN :
               IF ok
               THEN creds' = Credentials(TRUE, FALSE, r, "login") /\ auth_pc' = "save"
               ELSE auth_pc' = "raised" /\ UNCHANGED creds
    /\ UNCHANGED <<stored_token, credentials_exists, service_creds, constructions>>
    /\ UNCHANGED notAuthVars

\* pickle.dump(creds, token)
save_token ==
    /\ auth_pc = "save"
    /\ \E ok \in BOOLEAN :
          IF ok
          THEN stored_token' = [creds EXCEPT !.from = "token.pickle"] /\ auth_pc' = "build"
          ELSE UNCHANGED stored_token /\ auth_pc' = "raised"
    /\ UNCHANGED <<credentials_exists, creds, service_creds, constructions>>
    /\ UNCHANGED notAuthVars

\* self.service = build('drive', 'v3', credentials=creds)
build_service ==
    /\ auth_pc = "build"
    /\ \E ok \in BOOLEAN :
          IF ok
          THEN service_creds' = creds /\ auth_pc' = "returned"
          ELSE UNCHANGED service_creds /\ auth_pc' = "raised"
    /\ UNCHANGED <<stored_token, credentials_exists, creds, constructions>>
    /\ UNCHANGED notAuthVars

----------------------------------------------------------------------------
(* Specifications *)

\* Pipeline runs of one day.
Init == PipeInit /\ SheetsIdle /\ UploadIdle /\ ParseIdle /\ GenIdle /\ HelperIdle /\ StagesIdle /\ MonitorIdle /\ ScoreIdle /\ SecIdle /\ AuthIdle /\ TrackIdle

Next ==
    \E r \in Runs :
        \/ StartRun(r)
        \/ descobrir_conteudo_call(r)
        \/ StageCall(r)
        \/ StageExit(r)
        \/ IntegradoReturn(r)
        \/ AutomatizadoReturn(r)

Spec == Init /\ [][Next]_vars

\* Tracker processes whose update_status calls may overlap.
SheetsInit == PipeIdle /\ TrackerInit /\ UploadIdle /\ ParseIdle /\ GenIdle /\ HelperIdle /\ StagesIdle /\ MonitorIdle /\ ScoreIdle /\ SecIdle /\ AuthIdle /\ TrackIdle

SheetsNext ==
    \/ \E c \in Trackers : update_status_read(c) \/ update_status_write(c)
    \/ Midnight

SheetsSpec == SheetsInit /\ [][SheetsNext]_vars

\* update_status calls that do not overlap.
SheetsSeqNext ==
    \/ \E c \in Trackers : update_status_seq(c) \/ update_status_write(c)
    \/ Midnight

SheetsSeqSpec == SheetsInit /\ [][SheetsSeqNext]_vars

\* update_status calls taken whole, one after the other.
TrackNext ==
    \/ \E c \in Trackers : update_status(c)
    \/ Midnight

TrackSpec == SheetsInit /\ [][TrackNext]_vars

\* One call of upload_directory.
UploadSpecInit == PipeIdle /\ SheetsIdle /\ UploadInit /\ ParseIdle /\ GenIdle /\ HelperIdle /\ StagesIdle /\ MonitorIdle /\ ScoreIdle /\ SecIdle /\ AuthIdle /\ TrackIdle

UploadNext ==
    \/ upload_directory_check
    \/ create_folder
    \/ upload_file
    \/ save_drive_url
    \/ save_upload_info

UploadSpec == UploadSpecInit /\ [][UploadNext]_vars

\* parse_script on every script text within the bound.
ParseSpecInit == PipeIdle /\ SheetsIdle /\ UploadIdle /\ ParseInit /\ GenIdle /\ HelperIdle /\ StagesIdle /\ MonitorIdle /\ ScoreIdle /\ SecIdle /\ AuthIdle /\ TrackIdle

ParseNext ==
    \/ \E ph \in Phrases : ScriptText(ph)
    \/ parse_script_call

ParseSpec == ParseSpecInit /\ [][ParseNext]_vars

\* _extract_sections on every raw script within the bound.
ExtractSpecInit == PipeIdle /\ SheetsIdle /\ UploadIdle /\ ParseIdle /\ ExtractInit /\ HelperIdle /\ StagesIdle /\ MonitorIdle /\ ScoreIdle /\ SecIdle /\ AuthIdle /\ TrackIdle

ExtractNext ==
    \/ \E ph \in RawPhrases : RawText(ph)
    \/ _extract_sections_call

ExtractSpec == ExtractSpecInit /\ [][ExtractNext]_vars

\* _timestamp_to_seconds on every string within the bound.
TimestampSpecInit == PipeIdle /\ SheetsIdle /\ UploadIdle /\ ParseIdle /\ TimestampInit /\ HelperIdle /\ StagesIdle /\ MonitorIdle /\ ScoreIdle /\ SecIdle /\ AuthIdle /\ TrackIdle

TimestampNext ==
    \/ \E c \in TimestampChars : TimestampText(c)
    \/ _timestamp_to_seconds_call

TimestampSpec == TimestampSpecInit /\ [][TimestampNext]_vars

\* The two helpers of DriveUploader on every file name and mapping.
HelperSpecInit == PipeIdle /\ SheetsIdle /\ UploadIdle /\ ParseIdle /\ GenIdle /\ HelperInit /\ StagesIdle /\ MonitorIdle /\ ScoreIdle /\ SecIdle /\ AuthIdle /\ TrackIdle

HelperNext ==
    \/ _determine_target_folder_call
    \/ _get_mime_type_call

HelperSpec == HelperSpecInit /\ [][HelperNext]_vars

\* The stages of both pipelines on one project directory.
StagesSpecInit ==
    PipeIdle /\ SheetsIdle /\ UploadIdle /\ ParseIdle /\ GenIdle /\ HelperIdle /\ StagesInit /\ MonitorIdle /\ ScoreIdle /\ SecIdle /\ AuthIdle /\ TrackIdle

StagesNext ==
    \/ generate_script
    \/ generate_narration
    \/ generate_images
    \/ script_generator_main
    \/ narration_generator_main
    \/ image_processor_main
    \/ video_assembler_main

StagesSpec == StagesSpecInit /\ [][StagesNext]_vars

\* One DependencyRiskMonitor, its caller and its monitoring threads.
MonitorInit ==
    PipeIdle /\ SheetsIdle /\ UploadIdle /\ ParseIdle /\ GenIdle /\ HelperIdle /\ StagesIdle /\ MonitorIdle /\ ScoreIdle /\ SecIdle /\ AuthIdle /\ TrackIdle

MonitorNext ==
    \/ start_monitoring
    \/ thread_start
    \/ stop_monitoring
    \/ thread_join
    \/ \E t \in Threads : _monitoring_loop(t)
    \/ \E t \in Threads : calculate_dependency_hash(t)
    \/ \E t \in Threads : detect_dependency_changes_call(t)
    \/ \E t \in Threads : audit_due(t)
    \/ \E t \in Threads : run_risk_assessment(t)
    \/ \E t \in Threads : process_risk_assessment(t)
    \/ \E t \in Threads : sleep_returns(t)

MonitorSpec == MonitorInit /\ [][MonitorNext]_vars

\* detect_dependency_changes called again and again on one monitor.
DetectNext ==
    \/ detect_dependency_changes_seq

DetectSpec == MonitorInit /\ [][DetectNext]_vars

\* calculate_risk_score on the assessments of run_risk_assessment.
ScoreSpecInit ==
    PipeIdle /\ SheetsIdle /\ UploadIdle /\ ParseIdle /\ GenIdle /\ HelperIdle /\ StagesIdle /\ MonitorIdle /\ ScoreInit /\ SecIdle /\ AuthIdle /\ TrackIdle

ScoreNext ==
    \/ calculate_risk_score_call

ScoreSpec == ScoreSpecInit /\ [][ScoreNext]_vars

\* One call of one of the three wrappers.
WrapSpecInit ==
    PipeIdle /\ SheetsIdle /\ UploadIdle /\ ParseIdle /\ GenIdle /\ HelperIdle /\ StagesIdle /\ MonitorIdle /\ ScoreIdle /\ WrapInit /\ AuthIdle /\ TrackIdle

WrapNext ==
    \/ safe_run
    \/ safe_run_process
    \/ safe_subprocess_run

WrapSpec == WrapSpecInit /\ [][WrapNext]_vars

\* One call of validate_path or of an example on one path.
PathSpecInit ==
    PipeIdle /\ SheetsIdle /\ UploadIdle /\ ParseIdle /\ GenIdle /\ HelperIdle /\ StagesIdle /\ MonitorIdle /\ ScoreIdle /\ PathInit /\ AuthIdle /\ TrackIdle

PathNext ==
    \/ validate_path_call
    \/ safe_file_info
    \/ safe_file_operations_example

PathSpec == PathSpecInit /\ [][PathNext]_vars

\* DriveUploader objects constructed one after the other on one token.pickle.
AuthSpecInit ==
    PipeIdle /\ SheetsIdle /\ UploadIdle /\ ParseIdle /\ GenIdle /\ HelperIdle /\ StagesIdle /\ MonitorIdle /\ ScoreIdle /\ SecIdle /\ AuthInit /\ TrackIdle

AuthNext ==
    \/ DriveUploader_init
    \/ load_token
    \/ refresh
    \/ login
    \/ save_token
    \/ build_service

AuthSpec == AuthSpecInit /\ [][AuthNext]_vars

\* The same under fair scheduling of the threads: every sleep, assessment
\* and report returns, and a thread that can take a step does.
MonitorFairSpec == MonitorSpec /\ \A t \in Threads : WF_vars(thread_step(t))

----------------------------------------------------------------------------
(* Properties of the orchestrators *)

IsPrefix(a, b) == Len(a) <= Len(b) /\ \A i \in 1..Len(a) : a[i] = b[i]

\* Run r takes the step in which its orchestrator gets a stage's result.
ReturnStep(r) == pc[r].phase = "waiting" /\ pc'[r] # pc[r]

\* C1: in PipelineIntegrado, whenever the subprocess of a stage ended with a
\* non-zero exit status, the orchestrator starts no later stage and the run
\* returns False.
C1_FailedStageAborts ==
    [][\A r \in Runs :
         (kind[r] = "integrado" /\ ReturnStep(r)
            /\ exitv[r].t = "exit" /\ exitv[r].code # 0)
         => (pc'[r].phase = "done" /\ result'[r] = "False")]_vars

\* C2: in both orchestrators the stages of a run are started in the fixed
\* order, each at most once, a stage only after the call of the previous one
\* has returned, and never two stages of one run are active at once.
C2_LinearStages ==
    \A r \in Runs :
        /\ IsPrefix(started[r], StageOrder)
        /\ Cardinality(proc[r]) <= 1
        /\ proc[r] \subseteq {Len(started[r])}

\* Both orchestrators have completed a run of all six stages.
C2_Witness ==
    \E r1, r2 \in Runs :
        /\ kind[r1] = "integrado" /\ kind[r2] = "automatizado"
        /\ result[r1] = "True" /\ result[r2] = "True"
        /\ started[r1] = StageOrder /\ started[r2] = StageOrder

\* What the claim calls a falsy result of a stage.
FalsyResult(v) ==
    \/ v.t = "topics" /\ Len(v.titles) = 0
    \/ v.t = "script" /\ (v.dir = NoDir \/ v.segs = 0)
    \/ v.t = "bool" /\ v.b = FALSE

\* C3: in PipelineAutomatizado.run_pipeline a falsy result of a stage ends the
\* run with False and no further stage is invoked; True is returned only
\* after the sixth stage returned a truthy result (every earlier one did).
C3_FalsyAborts ==
    [][\A r \in Runs :
         /\ (kind[r] = "automatizado" /\ ReturnStep(r)) =>
              /\ FalsyResult(exitv[r]) =>
                    (pc'[r].phase = "done" /\ result'[r] = "False")
              /\ result'[r] = "True" =>
                    (~FalsyResult(exitv[r]) /\ exitv[r].t = "bool"
                       /\ started[r] = StageOrder)
              /\ pc'[r].phase = "before" => ~FalsyResult(exitv[r])
         /\ (kind[r] = "automatizado" /\ result[r] # "none") =>
              (started'[r] = started[r] /\ result'[r] = result[r])]_vars

\* A run of PipelineAutomatizado was aborted by a falsy result before the
\* last stage.
C3_Witness ==
    \E r \in Runs :
        /\ kind[r] = "automatizado" /\ result[r] = "False"
        /\ Len(started[r]) \in 1..(NumStages - 1)

\* C4 (as claimed): a project directory is never accessed by more than one
\* stage at the same time, also when several runs are started the same day.
C4_OneStagePerDirectory ==
    \A d \in ProjectDirs : Cardinality(Accessing(d)) <= 1

\* C4 (amended): the stages that access a project directory at the same time
\* belong to different runs.
C4_OneStagePerDirectoryAndRun ==
    \A d \in ProjectDirs : \A a, b \in Accessing(d) : a[1] = b[1] => a = b

\* Two runs started the same day work in the same project directory.
C4_Witness ==
    \E d \in ProjectDirs : \E a, b \in Accessing(d) : a[1] # b[1]

----------------------------------------------------------------------------
(* Properties of SheetsTracker.update_status *)

\* The (date, topic) pair of a row, or <<>> for a row without the two cells.
PairOf(row) == IF Len(row) >= 2 THEN <<row[1], row[2]>> ELSE <<>>

RowsOf(rows, pair) == {i \in 1..Len(rows) : PairOf(rows[i]) = pair}

\* Tracker c takes the step in which its update is written.
WriteStep(c) == call[c].pc = "write" /\ call'[c].pc = "done" /\ call'[c].ret = "True"

\* C5: update_status takes no lock: a call that found no row for its pair
\* picked row len(rows)+1; when an overlapping call for another pair has
\* meanwhile written that row, the later write replaces it and the earlier
\* pair is left without a row.
C5_LaterWriteReplaces ==
    [][\A c \in Trackers :
         LET i == call[c].row_index
             mine == <<call[c].date, call[c].topic>>
         IN  (/\ WriteStep(c)
              /\ i = call[c].nrows + 1
              /\ Len(sheet) >= i
              /\ PairOf(sheet[i]) \notin {<<>>, mine})
             => /\ sheet' = [sheet EXCEPT ![i] =
                               row_data(call[c].date, call[c].topic, call[c].args)]
                /\ RowsOf(sheet, PairOf(sheet[i])) = {i}
                     => RowsOf(sheet', PairOf(sheet[i])) = {}]_vars

\* Two calls for different pairs read the same rows, both picked row
\* len(rows)+1 and both returned True; only one of the pairs has a row.
C5_Witness ==
    \E c1, c2 \in Trackers :
        /\ c1 # c2
        /\ call[c1].pc = "done" /\ call[c1].ret = "True"
        /\ call[c2].pc = "done" /\ call[c2].ret = "True"
        /\ call[c1].nrows = call[c2].nrows
        /\ call[c1].row_index = call[c1].nrows + 1
        /\ call[c2].row_index = call[c2].nrows + 1
        /\ <<call[c1].date, call[c1].topic>> # <<call[c2].date, call[c2].topic>>
        /\ RowsOf(sheet, <<call[c1].date, call[c1].topic>>) = {}
        /\ RowsOf(sheet, <<call[c2].date, call[c2].topic>>) = {call[c2].row_index}

NoDuplicatePair ==
    \A i, j \in 1..Len(sheet) :
        (i # j /\ PairOf(sheet[i]) # <<>>) => PairOf(sheet[i]) # PairOf(sheet[j])

----------------------------------------------------------------------------
(* Properties of DriveUploader.upload_directory *)

AllUploaded ==
    /\ Len(upDone) = Len(upDir.files)
    /\ \A i \in 1..Len(upDone) : upDone[i].file = upDir.files[i]

\* C7 (as claimed): the manifest (drive_url.txt and upload_info.json) is
\* written exactly once per call, only after every file has been uploaded;
\* a call that raised has written no manifest.
C7_ManifestExactlyOnce ==
    /\ upUrlWrites <= 1 /\ upInfoWrites <= 1
    /\ (upUrlWrites > 0 \/ upInfoWrites > 0) => AllUploaded
    /\ upPc = "raised" => (upUrlWrites = 0 /\ upInfoWrites = 0)
    /\ upPc = "returned" => (upUrlWrites = 1 /\ upInfoWrites = 1)

\* C7 (amended): each manifest file is written at most once per call,
\* upload_info.json only after drive_url.txt, and only after all six folders
\* were created and every file was uploaded; a call that raised has written
\* none; a call that returned has uploaded every file and has written both
\* files unless _save_upload_info logged a failure.
C7_ManifestAtMostOnce ==
    /\ upUrlWrites <= 1 /\ upInfoWrites <= upUrlWrites
    /\ upUrlWrites > 0 => (AllUploaded /\ upFolders = FolderOrder)
    /\ upPc = "raised" => (upUrlWrites = 0 /\ upInfoWrites = 0)
    /\ upPc = "returned" => AllUploaded
    /\ (upPc = "returned" /\ ~upSaveFailed) => (upUrlWrites = 1 /\ upInfoWrites = 1)

\* A call has uploaded two files, written both manifest files and returned.
C7_Witness ==
    /\ upPc = "returned" /\ ~upSaveFailed
    /\ Len(upDone) = 2
    /\ upUrlWrites = 1 /\ upInfoWrites = 1

----------------------------------------------------------------------------
(* Properties of parse_script *)

\* The non-empty lines of a script text, trimmed.
RECURSIVE TrimmedLines(_)
TrimmedLines(lines) ==
    IF lines = <<>> THEN <<>>
    ELSE (IF strip(Head(lines)) = <<>> THEN <<>> ELSE <<strip(Head(lines))>>)
             \o TrimmedLines(Tail(lines))

ScriptLines == TrimmedLines(split(TextOf(script)))

\* The places of the lines that contain a marker.
MarkerLines(lines) == {i \in 1..Len(lines) : \E j \in 1..Len(lines[i]) : IsMarker(lines[i][j])}

\* The place of the k-th line with a marker.
MarkerLine(lines, k) ==
    LET ml == MarkerLines(lines)
    IN  CHOOSE i \in ml : Cardinality({j \in ml : j <= i}) = k

\* The lines between the k-th line with a marker and the next one.
ContinuationLines(lines, k) ==
    SubSeq(lines, MarkerLine(lines, k) + 1,
           IF k < Cardinality(MarkerLines(lines)) THEN MarkerLine(lines, k + 1) - 1 ELSE Len(lines))

\* The first marker of a line and what follows it on the line.
FirstMarker(line) == line[CHOOSE j \in 1..Len(line) : IsMarker(line[j]) /\ \A l \in 1..(j - 1) : ~IsMarker(line[l])]

AfterMarker(line) ==
    SubSeq(line, 1 + (CHOOSE j \in 1..Len(line) : IsMarker(line[j]) /\ \A l \in 1..(j - 1) : ~IsMarker(line[l])), Len(line))

\* minutes*60+seconds of the two markers.
MarkerSeconds(c) == IF c = "[0:05]" THEN 5 ELSE 90

\* C8: parse_script returns exactly one segment for each line of the script
\* that contains a [minutes:seconds] marker, in the order of the lines, and
\* the time_seconds of each segment is minutes*60+seconds of the (first)
\* marker of its line; a script without a marker yields the empty list.
C8_SegmentPerMarkerLine ==
    parsed =>
        LET lines == ScriptLines
        IN  /\ Len(segments) = Cardinality(MarkerLines(lines))
            /\ \A k \in 1..Len(segments) :
                  segments[k].time_seconds = MarkerSeconds(FirstMarker(lines[MarkerLine(lines, k)]))
            /\ (MarkerLines(lines) = {} => segments = <<>>)

\* A script with a line before the first marker and two marker lines of
\* different times has been parsed.
C8_Witness ==
    /\ parsed
    /\ Len(ScriptLines) = 3
    /\ MarkerLines(ScriptLines) = {2, 3}
    /\ Len(segments) = 2
    /\ segments[1].time_seconds = 90
    /\ segments[2].time_seconds = 5

\* The number of words in a text.
RECURSIVE Words(_)
Words(text) ==
    IF text = <<>> THEN 0 ELSE (IF Head(text) = "a" THEN 1 ELSE 0) + Words(Tail(text))

\* The number of words of a line outside its '(Imagem: ...)' parentheticals.
RECURSIVE NarrationWords(_)
NarrationWords(line) ==
    LET image_match == image_search(line)
    IN  IF ~image_match.found THEN Words(line)
        ELSE Words(SubSeq(line, 1, image_match.start - 1))
             + NarrationWords(SubSeq(line, image_match.start + Len(image_match.group1) + 2, Len(line)))

RECURSIVE SumNarrationWords(_)
SumNarrationWords(lines) ==
    IF lines = <<>> THEN 0 ELSE NarrationWords(Head(lines)) + SumNarrationWords(Tail(lines))

\* C9: every word outside an '(Imagem: ...)' parenthetical of the lines
\* without a marker that lie between a segment's marker line and the next
\* marker line ends up in the text of that segment.
C9_ContinuationWordsKept ==
    parsed =>
        LET lines == ScriptLines
        IN  Len(segments) = Cardinality(MarkerLines(lines)) =>
                \A k \in 1..Len(segments) :
                    Words(segments[k].text) >=
                        Words(IF image_search(AfterMarker(lines[MarkerLine(lines, k)])).found
                              THEN <<>> ELSE AfterMarker(lines[MarkerLine(lines, k)]))
                        + SumNarrationWords(ContinuationLines(lines, k))

\* The trimmed contents of the '(Imagem: ...)' parentheticals of a line.
RECURSIVE Parentheticals(_)
Parentheticals(line) ==
    LET image_match == image_search(line)
    IN  IF ~image_match.found THEN {}
        ELSE {strip(image_match.group1)}
             \cup Parentheticals(SubSeq(line, image_match.start + Len(image_match.group1) + 2, Len(line)))

RECURSIVE ParentheticalsOf(_)
ParentheticalsOf(lines) ==
    IF lines = <<>> THEN {} ELSE Parentheticals(Head(lines)) \cup ParentheticalsOf(Tail(lines))

\* The parentheticals of the k-th segment: those of its marker line after
\* the marker and those of its continuation lines.
SegmentParentheticals(lines, k) ==
    Parentheticals(AfterMarker(lines[MarkerLine(lines, k)]))
        \cup ParentheticalsOf(ContinuationLines(lines, k))

\* C10: a segment whose marker line or continuation lines contain an
\* '(Imagem: ...)' parenthetical has the trimmed content of one of them as
\* image_prompt and no such parenthetical in its text; a segment without
\* one has the empty image_prompt.
C10_ImagePromptExtracted ==
    parsed =>
        LET lines == ScriptLines
        IN  Len(segments) = Cardinality(MarkerLines(lines)) =>
                \A k \in 1..Len(segments) :
                    LET ps == SegmentParentheticals(lines, k)
                    IN  IF ps # {}
                        THEN /\ segments[k].image_prompt \in ps
                             /\ ~image_search(segments[k].text).found
                        ELSE segments[k].image_prompt = <<>>

----------------------------------------------------------------------------
(* Properties of ScriptGenerator *)

\* The places of the [MM:SS] markers of a text.
SectionMarkerPlaces(text) == {p \in 1..Len(text) : text[p] \in {"[00:30]", "[01:00]"}}

\* The place of the k-th marker of a text.
SectionMarkerPlace(text, k) ==
    LET mp == SectionMarkerPlaces(text)
    IN  CHOOSE p \in mp : Cardinality({q \in mp : q <= p}) = k

\* What follows place p on its own line.
RestOfLine(text, p) ==
    LET feeds == {i \in (p + 1)..Len(text) : text[i] = "\n"}
    IN  SubSeq(text, p + 1,
               IF feeds = {} THEN Len(text) ELSE (CHOOSE i \in feeds : \A j \in feeds : i <= j) - 1)

\* MM:SS of a marker.
MarkerText(c) == IF c = "[00:30]" THEN "00:30" ELSE "01:00"

\* C11: _extract_sections returns exactly one section per [MM:SS] marker of
\* the text, in order of appearance, whose timestamp is the marker's MM:SS
\* and whose title is the trimmed remainder of the marker's own line, also
\* for markers followed by an empty remainder.
C11_SectionPerMarker ==
    extracted =>
        /\ Len(sections) = Cardinality(SectionMarkerPlaces(raw_script))
        /\ \A k \in 1..Len(sections) :
              LET p == SectionMarkerPlace(raw_script, k)
              IN  /\ sections[k].timestamp = MarkerText(raw_script[p])
                  /\ sections[k].title = str_strip(RestOfLine(raw_script, p))

\* A non-empty string of decimal digits.
IsDigits(s) == s # <<>> /\ \A i \in 1..Len(s) : s[i] \in {"0", "1", "2", "5"}

\* The same with single underscores between digits.
IsGroupedDigits(s) ==
    /\ s # <<>>
    /\ \A i \in 1..Len(s) : s[i] \in {"0", "1", "2", "5", "_"}
    /\ s[1] # "_" /\ s[Len(s)] # "_"
    /\ \A i \in 1..(Len(s) - 1) : ~(s[i] = "_" /\ s[i + 1] = "_")

\* An integer in decimal notation: an optional sign and digits.
IsInteger(s) == IsDigits(s) \/ (s # <<>> /\ Head(s) = "-" /\ IsDigits(Tail(s)))

\* What int() accepts: blanks around an optional sign and digits that
\* single underscores may separate.
IsIntLiteral(s) ==
    \E a \in 1..Len(s) : \E b \in a..Len(s) :
        /\ \A i \in 1..Len(s) : (i < a \/ i > b) => s[i] = " "
        /\ LET t == SubSeq(s, a, b)
           IN  \/ IsGroupedDigits(t)
               \/ (Head(t) = "-" /\ IsGroupedDigits(Tail(t)))

\* The string has the form MM:SS.
IsMMSS(s) ==
    /\ Len(s) = 5
    /\ s[3] = ":"
    /\ \A i \in {1, 2, 4, 5} : s[i] \in {"0", "1", "2", "5"}

DigitOf(c) == IF c = "0" THEN 0 ELSE IF c = "1" THEN 1 ELSE IF c = "2" THEN 2 ELSE 5

\* The parts of a string around its only colon, <<>> if it has not exactly one.
AroundColon(s) ==
    LET at == {i \in 1..Len(s) : s[i] = ":"}
    IN  IF Cardinality(at) # 1 THEN <<>>
        ELSE LET i == CHOOSE j \in at : TRUE
             IN  <<SubSeq(s, 1, i - 1), SubSeq(s, i + 1, Len(s))>>

\* C12 as stated: _timestamp_to_seconds returns minutes*60+seconds for
\* every string of the form MM:SS and 0 for every string that is not two
\* integers separated by one colon.
C12_ZeroUnlessTwoIntegers ==
    ts_converted =>
        /\ IsMMSS(ts_input) =>
              ts_result = (10 * DigitOf(ts_input[1]) + DigitOf(ts_input[2])) * 60
                          + 10 * DigitOf(ts_input[4]) + DigitOf(ts_input[5])
        /\ LET parts == AroundColon(ts_input)
           IN  (parts = <<>> \/ ~IsInteger(parts[1]) \/ ~IsInteger(parts[2])) => ts_result = 0

\* C12: _timestamp_to_seconds returns minutes*60+seconds for every string
\* of the form MM:SS and 0 for every string that is not two strings
\* accepted by int() separated by one colon.
C12_ZeroUnlessTwoIntLiterals ==
    ts_converted =>
        /\ IsMMSS(ts_input) =>
              ts_result = (10 * DigitOf(ts_input[1]) + DigitOf(ts_input[2])) * 60
                          + 10 * DigitOf(ts_input[4]) + DigitOf(ts_input[5])
        /\ LET parts == AroundColon(ts_input)
           IN  (parts = <<>> \/ ~IsIntLiteral(parts[1]) \/ ~IsIntLiteral(parts[2])) => ts_result = 0

\* '02:15' has been converted to 135.
C12_Witness ==
    /\ ts_converted
    /\ ts_input = <<"0", "2", ":", "1", "5">>
    /\ ts_result = 135

----------------------------------------------------------------------------
(* Properties of the helpers of DriveUploader *)

\* The suffix of the file name in lower case.
FoldedSuffix ==
    LET x == IF Len(file_path) >= 2 THEN file_path[Len(file_path)] ELSE ""
    IN  IF x = ".MP4" THEN ".mp4" ELSE IF x = ".JPG" THEN ".jpg" ELSE IF x = ".Txt" THEN ".txt" ELSE x

\* C13: _determine_target_folder returns the first folder of the mapping,
\* in mapping order, whose extension list contains the lower-cased suffix of
\* the path, and 'data' when no list contains it; with the mapping of
\* upload_directory the result is a key of the created subfolders.
C13_FirstMatchingFolder ==
    target_folder # "" =>
        /\ \/ \E i \in 1..Len(given_mapping) :
                 /\ FoldedSuffix \in given_mapping[i][2]
                 /\ \A j \in 1..(i - 1) : FoldedSuffix \notin given_mapping[j][2]
                 /\ target_folder = given_mapping[i][1]
           \/ /\ \A i \in 1..Len(given_mapping) : FoldedSuffix \notin given_mapping[i][2]
              /\ target_folder = "data"
        /\ given_mapping = folder_mapping =>
              target_folder \in {"scripts", "audio", "images", "videos", "data"}

\* A suffix in two lists of the mapping went to the first of them.
C13_Witness ==
    /\ file_path = <<"test", ".JPG">>
    /\ given_mapping = << <<"media", {".mp3", ".jpg", ".mp4"}>>, <<"images", {".jpg", ".png"}>> >>
    /\ target_folder = "media"

\* C14: _get_mime_type maps the suffix of the path, compared
\* case-insensitively, to the MIME type of its table and returns
\* 'application/octet-stream' for every suffix that is not in the table,
\* the empty suffix included.
C14_MimeOfSuffix ==
    mime_type # "" =>
        mime_type =
            CASE FoldedSuffix = ".mp4" -> "video/mp4"
              [] FoldedSuffix \in {".jpg", ".jpeg"} -> "image/jpeg"
              [] FoldedSuffix = ".png" -> "image/png"
              [] FoldedSuffix = ".gif" -> "image/gif"
              [] FoldedSuffix = ".mp3" -> "audio/mpeg"
              [] FoldedSuffix = ".wav" -> "audio/wav"
              [] FoldedSuffix = ".txt" -> "text/plain"
              [] FoldedSuffix = ".py" -> "text/x-python"
              [] FoldedSuffix = ".json" -> "application/json"
              [] OTHER -> "application/octet-stream"

\* An upper-case suffix was found in the table.
C14_Witness ==
    /\ file_path = <<"test", ".tar", ".MP4">>
    /\ mime_type = "video/mp4"

----------------------------------------------------------------------------
(* Properties of the stages *)

\* C15: when the script-generation stage has completed successfully, the
\* project directory contains script.json, script.txt and segments.json.
C15_ScriptStageFiles ==
    \A k \in 1..Len(stage_log) :
        (stage_log[k].stage = "script" /\ stage_log[k].ok) =>
            {File(<<>>, "script", 0, ".json"), File(<<>>, "script", 0, ".txt"),
             File(<<>>, "segments", 0, ".json")} \subseteq proj_files

\* The programs PipelineIntegrado runs as stages.
IntegradoPrograms ==
    {"script_generator.main", "narration_generator.main", "image_processor.main",
     "video_assembler.main"}

\* C16: in a run of the stage programs of PipelineIntegrado in which every
\* earlier stage succeeded, each stage finds the input it requires among
\* the files the earlier stages wrote.
C16_StagesFindTheirInput ==
    \A k \in 1..Len(stage_log) :
        (/\ \A j \in 1..k : stage_log[j].by \in IntegradoPrograms
         /\ \A j \in 1..(k - 1) : stage_log[j].ok) => stage_log[k].found

\* The list a stage left in memory or on disk has the segments of the
\* script, in order, with text, timestamp and image_prompt untouched.
OnlyEnriched(segs) ==
    /\ Len(segs) = Len(script_segments)
    /\ \A i \in 1..Len(segs) :
          /\ segs[i].text = script_segments[i].text
          /\ segs[i].timestamp = script_segments[i].timestamp
          /\ segs[i].image_prompt = script_segments[i].image_prompt

\* The narration and the image stage of the log have succeeded.
NarratedAndIllustrated ==
    /\ Len(stage_log) >= 3
    /\ stage_log[2].by = "generate_narration"
    /\ stage_log[2].ok
    /\ stage_log[3].by \in {"generate_images", "image_processor.main"}
    /\ stage_log[3].ok

\* C17: the narration and image stages keep the number and the order of the
\* segments and their text, timestamp and image_prompt; after both have
\* succeeded every segment i has an audio_file and an image_file numbered i
\* and segments.json holds that list.
C17_StagesOnlyEnrich ==
    (stage_log # <<>> /\ stage_log[1].by = "generate_script" /\ stage_log[1].ok) =>
        /\ OnlyEnriched(run_segments)
        /\ OnlyEnriched(segments_json)
        /\ NarratedAndIllustrated =>
              LET segs == IF stage_log[3].by = "generate_images" THEN run_segments ELSE segments_json
              IN  /\ segments_json = segs
                  /\ \A i \in 1..Len(segs) :
                        /\ Len(segs[i].audio_file) = 3
                        /\ segs[i].audio_file[2] = Format02d(i - 1)
                        /\ Len(segs[i].image_file) = 3
                        /\ segs[i].image_file[2] = Format02d(i - 1)

\* Two segments have been narrated and illustrated by run_pipeline.
C17_Witness ==
    /\ NarratedAndIllustrated
    /\ stage_log[3].by = "generate_images"
    /\ Len(run_segments) = 2
    /\ run_segments[2].audio_file = <<"segment_", <<0, 1>>, ".wav">>
    /\ run_segments[2].image_file = <<"image_", <<0, 1>>, ".jpg">>
    /\ run_segments[1].image_prompt = <<"x">>

----------------------------------------------------------------------------
(* Properties of the tracking row of PipelineIntegrado *)

\* Run r writes a status to the sheet in this step.
StatusWrite(r) == statusWritten'[r] # statusWritten[r]

\* The statuses in the order of the stages.
StatusList == <<"Conteudo Descoberto", "Roteiro Gerado", "Narracao Gerada",
                "Imagens Processadas", "Video Montado", "Upload Concluido">>

\* C18 as stated: the statuses a run writes are a prefix of the list, each
\* written after the stage before it.
C18_StatusesArePrefix ==
    [][\A r \in Runs : StatusWrite(r) => statusWritten'[r] = statusWritten[r] + 1]_vars

\* C18: a run of PipelineIntegrado writes the status of a stage at most
\* once, after the subprocess of that stage has returned and before the
\* next stage starts, and never after the status of a later stage; the
\* statuses written are in the order of the list.
C18_StatusesInOrder ==
    [][\A r \in Runs : StatusWrite(r) =>
          /\ kind[r] = "integrado"
          /\ pc[r].phase = "waiting"
          /\ proc[r] = {}
          /\ Len(started[r]) = pc[r].stage
          /\ started'[r] = started[r]
          /\ statusWritten'[r] = pc[r].stage
          /\ statusWritten'[r] > statusWritten[r]
          /\ producao'[rowIndex[r] - 1][4] = StatusList[pc[r].stage]]_vars

\* A run has written the status of its last stage and returned True.
C18_Witness ==
    \E r \in Runs :
        /\ kind[r] = "integrado"
        /\ statusWritten[r] = 6
        /\ result[r] = "True"
        /\ producao[rowIndex[r] - 1][4] = "Upload Concluido"

\* C19: upload_drive records 'Upload Concluido' and a share URL only when
\* the upload subprocess of this run exited with status 0, and the URL is
\* the one this run's upload wrote to drive_url.txt.
C19_UploadRecordedOnSuccess ==
    [][\A r \in Runs :
          (StatusWrite(r) /\ statusWritten'[r] = 6) =>
              /\ exitv[r] = ExitCode(0)
              /\ driveUrl[project[r]] \in {"none", r}]_vars

\* C20: without a tracking sheet, or without a pending row in it,
\* descobrir_conteudo names the project Conteudo_Auto_{date}, runs the
\* discovery subprocess and returns True, so that the run goes on to script
\* generation.
C20_DiscoveryWithoutRowGoesOn ==
    [][\A r \in Runs :
          (/\ kind[r] = "integrado"
           /\ pc[r] = [stage |-> 1, phase |-> "waiting"]
           /\ pc'[r] # pc[r]
           /\ rowIndex[r] = 0) =>
              /\ topic[r] = "Conteudo_Auto_2026-01-01"
              /\ pc'[r] = [stage |-> 2, phase |-> "before"]]_vars

\* A row is pending when its status cell is empty, absent or 'Pendente'.
RowIsPending(row) == Len(row) < 4 \/ row[4] = "" \/ row[4] = "Pendente"

\* C21 as stated: whenever _obter_proximo_projeto sets row_index, it is the
\* sheet row of the first row, in sheet order, whose status cell is empty,
\* absent (fewer than four cells) or 'Pendente', and the name returned is
\* that row's project name.
C21_FirstPendingRow ==
    [][\A r \in Runs :
          rowIndex'[r] # rowIndex[r] =>
              LET hits == {i \in 1..Len(producao) : RowIsPending(producao[i])}
              IN  /\ hits # {}
                  /\ \A i \in hits : rowIndex'[r] <= i + 1
                  /\ rowIndex'[r] - 1 \in hits
                  /\ topic'[r] = producao[rowIndex'[r] - 1][1]]_vars

----------------------------------------------------------------------------
(* Properties of DependencyRiskMonitor *)

\* The threads executing _monitoring_loop.
Monitoring == {t \in Threads : thread[t].pc \notin {"new", "done"}}

\* C22 as stated: at most one thread is executing _monitoring_loop at any
\* time, whatever the interleaving of start_monitoring, stop_monitoring and
\* the monitoring thread.
C22_OneMonitoringThread == Cardinality(Monitoring) <= 1

\* stop_monitoring has returned and start_monitoring has not been called since.
Stopped == caller = "idle" /\ ~is_monitoring /\ monitor_thread # 0

\* Thread t starts a risk assessment in this step.
StartsAssessment(t) ==
    /\ thread'[t].pc \in {"assess_change", "assess_audit"}
    /\ thread[t].pc \notin {"assess_change", "assess_audit"}

\* Thread t finishes writing a report file in this step.
WritesReport(t) ==
    /\ thread[t].pc \in {"report_change", "report_audit"}
    /\ thread'[t].pc \in {"audit_due", "sleep"}

\* C23 as stated: once stop_monitoring has returned, no monitoring thread
\* starts a risk assessment or writes a report file.
C23_QuietAfterStop ==
    [][Stopped => \A t \in Threads : ~StartsAssessment(t) /\ ~WritesReport(t)]_vars

\* C24: under fair scheduling a thread that is in _monitoring_loop while
\* is_monitoring is false leaves the loop and ends, unless start_monitoring
\* sets the flag again; and a thread ends only when it finds the flag
\* false, never because an iteration raised.
C24_LoopEndsAfterStop ==
    /\ \A t \in Threads :
          (t \in Monitoring /\ ~is_monitoring) ~> (thread[t].pc = "done" \/ is_monitoring)
    /\ [][\A t \in Threads :
             (thread'[t].pc = "done" /\ thread[t].pc # "done") =>
                 (~is_monitoring /\ thread[t].pc = "test")]_vars

\* stop_monitoring has returned and the thread it stopped has ended.
C24_Witness ==
    /\ Stopped
    /\ Monitoring = {}
    /\ thread[monitor_thread].pc = "done"

\* C25: detect_dependency_changes returns True on its first call and on a
\* later call exactly when the hash it computed differs from the hash of
\* the call before; after every call dependency_hashes['current'] is the
\* hash just computed, and after a detected change
\* dependency_hashes['previous'] is the hash of the call before.
C25_ChangeDetected ==
    \A i \in 1..Len(detect_log) :
        /\ detect_log[i].ret = (i = 1 \/ detect_log[i].hash # detect_log[i - 1].hash)
        /\ i = Len(detect_log) =>
              /\ "current" \in DOMAIN dependency_hashes
              /\ dependency_hashes["current"] = detect_log[i].hash
              /\ (i > 1 /\ detect_log[i].ret) =>
                    /\ "previous" \in DOMAIN dependency_hashes
                    /\ dependency_hashes["previous"] = detect_log[i - 1].hash

\* A change was detected after a call that found none.
C25_Witness ==
    /\ Len(detect_log) = 3
    /\ ~detect_log[2].ret
    /\ detect_log[3].ret
    /\ dependency_hashes = [k \in {"current", "previous"} |->
                               IF k = "current" THEN detect_log[3].hash ELSE detect_log[1].hash]

\* The count an assessment holds under a key of one of its reports, 0 when
\* the report has no such key.
CountOf(a, report, key) == IF key \in DOMAIN a[report] THEN a[report][key] ELSE 0

\* The assessment with one more under a count it holds.
OneMore(a, report, key) == [a EXCEPT ![report][key] = @ + 1]

\* The counts an assessment holds.
CountsHeld(a) ==
    {rk \in {<<"vulnerabilities", "critical">>, <<"vulnerabilities", "high">>,
             <<"vulnerabilities", "medium">>, <<"outdated_packages", "critical_count">>,
             <<"outdated_packages", "total">>, <<"security_compliance", "critical_violations">>,
             <<"security_compliance", "high_violations">>} :
        rk[2] \in DOMAIN a[rk[1]]}

\* C26: calculate_risk_score returns an integer between 0 and 100, the sum
\* of min(40, 25*critical + 15*high + 5*medium) for the vulnerabilities,
\* min(20, 4*critical_outdated + total_outdated) for the outdated packages
\* and min(40, 20*critical + 10*high) for the compliance violations, and
\* one more of any count never gives a lower score.
C26_ScoreInRange ==
    risk_score # -1 =>
        LET a == assessment
            vulns == 25 * CountOf(a, "vulnerabilities", "critical")
                     + 15 * CountOf(a, "vulnerabilities", "high")
                     + 5 * CountOf(a, "vulnerabilities", "medium")
            outdated == 4 * CountOf(a, "outdated_packages", "critical_count")
                        + CountOf(a, "outdated_packages", "total")
            violations == 20 * CountOf(a, "security_compliance", "critical_violations")
                          + 10 * CountOf(a, "security_compliance", "high_violations")
        IN  /\ risk_score \in 0..100
            /\ risk_score = (IF vulns < 40 THEN vulns ELSE 40)
                            + (IF outdated < 20 THEN outdated ELSE 20)
                            + (IF violations < 40 THEN violations ELSE 40)
            /\ \A rk \in CountsHeld(a) :
                  calculate_risk_score(OneMore(a, rk[1], rk[2])) >= risk_score

\* Every part of the score is at its ceiling and the score is 100.
C26_Witness ==
    /\ risk_score = 100
    /\ assessment.vulnerabilities.critical = 2
    /\ assessment.outdated_packages.critical_count = 5
    /\ assessment.security_compliance.critical_violations = 2

----------------------------------------------------------------------------
(* Properties of the subprocess wrappers and of validate_path *)

\* C27 as stated: whatever keyword arguments the caller passes, a
\* caller-supplied shell=True included, each of the three wrappers hands
\* the command on with shell=False.
C27_ShellAlwaysFalse ==
    (handed # NotHanded /\ handed.command # <<>>) => handed.kwargs["shell"] = FALSE

\* C28 as stated: validate_path returns the resolved path for every path
\* without a '..' component and raises ValueError only for a path with
\* one.
C28_PathAccepted ==
    path_result.by = "validate_path" =>
        /\ path_result.ok <=> (\A i \in 1..Len(given_path.parts) : given_path.parts[i] # "..")
        /\ path_result.ok => path_result.path = resolve(given_path)

----------------------------------------------------------------------------
(* Properties of DriveUploader._authenticate *)

\* C29 as stated: whenever _authenticate returns normally, the Drive
\* service was built from valid credentials, and credentials that were not
\* valid when loaded have been refreshed or replaced by a login.
C29_ServiceFromValidCredentials ==
    auth_pc = "returned" =>
        /\ valid(service_creds)
        /\ service_creds.from = "token.pickle" => service_creds = stored_token

----------------------------------------------------------------------------
(* Properties of one update_status call *)

\* The column of an optional argument: the value given, or the empty string
\* when the argument was omitted.
OptionalCell(v) == IF v = "none" THEN "" ELSE v

\* C30: update_status rewrites all eight columns A..H of the row it
\* selects; the columns of omitted optional arguments (duration, drive_url,
\* errors) become the empty string whatever the row held before, and no
\* other row is modified.
C30_WholeRowRewritten ==
    last_write # NoWrite =>
        LET i == last_write.row_index
            a == last_write.args
            before == last_write.before
        IN  /\ i = SelectRow(before, last_write.date, last_write.topic)
            /\ i \in 1..Len(sheet)
            /\ Len(sheet[i]) = 8
            /\ sheet[i][1] = last_write.date
            /\ sheet[i][2] = last_write.topic
            /\ sheet[i][3] = a.status
            /\ sheet[i][4] = a.step
            /\ sheet[i][5] = OptionalCell(a.duration)
            /\ sheet[i][6] = OptionalCell(a.drive_url)
            /\ sheet[i][7] = OptionalCell(a.errors)
            /\ \A j \in 1..Len(sheet) :
                  j # i => sheet[j] = IF j <= Len(before) THEN before[j] ELSE <<>>

\* A call that omitted duration, drive_url and errors has rewritten the row
\* of its (date, topic), in which an earlier call had recorded all three.
C30_Witness ==
    /\ last_write # NoWrite
    /\ last_write.args.duration = "none"
    /\ last_write.args.drive_url = "none"
    /\ last_write.args.errors = "none"
    /\ last_write.row_index <= Len(last_write.before)
    /\ LET old == last_write.before[last_write.row_index]
       IN  /\ Len(old) = 8
           /\ old[1] = last_write.date /\ old[2] = last_write.topic
           /\ old[5] # "" /\ old[6] # "" /\ old[7] # ""
    /\ sheet[last_write.row_index][5] = ""
    /\ sheet[last_write.row_index][6] = ""
    /\ sheet[last_write.row_index][7] = ""

====
